---- MODULE Spec2Model ----
(***************************************************************************)
(* A model of MelodiJS: the fine-grained reactivity engine                 *)
(* (MelodiReactive: createSignal / createEffect / createMemo) and the      *)
(* component layer built on it (reactive state wrapper, interpolation      *)
(* effects, unmount).                                                      *)
(*                                                                         *)
(* A signal write propagates synchronously and recursively, so every       *)
(* action below computes the whole cascade with the recursive operators    *)
(* write / Notify / effect / ExecStmts.  Effect bodies are user code: they  *)
(* are drawn from the small language of statements defined under "Effect   *)
(* bodies".                                                                *)
(***************************************************************************)
EXTENDS Integers, Sequences, FiniteSets, TLC

\* ------------------------------------------------------------------ bounds
\* number of effect functions that may exist (top-level and nested ones)
MaxEff == 2
\* depth of the JavaScript call stack available to one cascade
MaxDepth == 6
\* longest array the environment builds
MaxLen == 2
\* `null` of `_currentEffect`
Null == 0

Eff == 1..MaxEff

\* ------------------------------------------------------------------ values
\* JavaScript values: k is the typeof-class, n the number or the identity
Num(i) == [k |-> "num", n |-> i]
NaN == [k |-> "nan", n |-> 0]
Undefined == [k |-> "undef", n |-> 0]
Obj(i) == [k |-> "obj", n |-> i]
\* a string, a boolean
JsString(s) == [k |-> "text", n |-> s]
Bool(b) == [k |-> "bool", n |-> b]
NullV == [k |-> "null", n |-> 0]
\* an array: its elements, and what stands for it (px): the raw array, the
\* Proxy of Component._makeReactiveArray ("comp") or that of
\* MelodiStore._makeReactiveArray ("store")
Arr(items, px) == [k |-> "arr", n |-> 0, items |-> items, px |-> px]
\* a plain record {f: leaf, g: {f: leaf, h: {f: leaf}}}; leaf stands for the
\* value last written to one of its fields f
Rec(leaf) == [k |-> "rec", n |-> 0, leaf |-> leaf]

\* next === null || (typeof next !== 'object' && typeof next !== 'function')
IsPrimitive(x) == x.k \notin {"obj", "arr", "rec"}

\* a === b : identity for objects, value for primitives, never for NaN
StrictEq(a, b) ==
    IF IsPrimitive(a) \/ IsPrimitive(b)
    THEN a = b /\ a.k # "nan"
    ELSE a.k = b.k /\ a.n = b.n

\* ToBoolean
Truthy(x) ==
    CASE x.k = "num" -> x.n # 0
      [] x.k \in {"nan", "undef", "null"} -> FALSE
      [] x.k = "str" -> x.n # 0
      [] x.k = "text" -> x.n # ""
      [] x.k = "bool" -> x.n
      [] OTHER -> TRUE

\* ------------------------------------------------------------------ signals
\* the plain signals, and the signal created by createMemo
Plain == {"a", "b", "c"}
MemoSig == "m"
\* the signal of the state field `x` (of a component's data, or of the
\* MelodiStore state) and the signal of the field `shared` of the global store
FieldSig == "x"
StoreSig == "shared"
\* the signals MelodiRouter.install creates
RouterSigs == {"route", "params", "query", "matched"}
Sigs == Plain \cup {MemoSig, FieldSig, StoreSig} \cup RouterSigs

\* the values the environment writes to each plain signal
Inputs(s) ==
    IF s = "a" THEN {Num(0), Num(1), NaN, Obj(1)}
    ELSE {Num(0), Num(1)}

\* ------------------------------------------------------------------ effect bodies
\* statements of an effect body
Rd(x) == [op |-> "read", x |-> x]
Branch(x, y, z) == [op |-> "branch", x |-> x, y |-> y, z |-> z]
Wr(x, val) == [op |-> "write", x |-> x, val |-> val]
Create(x) == [op |-> "create", x |-> x]
MemoStmt(x, f) == [op |-> "memo", x |-> x, f |-> f]
Text(f) == [op |-> "text", x |-> "", f |-> f]
\* write(read() === 0 ? 1 : 0) on one signal: the effect changes what it reads
Flip(x) == [op |-> "flip", x |-> x]
\* if (read()) throw new Error(): an exception the function does not catch
Throw(x) == [op |-> "throw", x |-> x]
\* a read whose result the function uses: the value it got is recorded
Snap(x) == [op |-> "snap", x |-> x]

\* expressions of a memo function
SigE(x) == [e |-> "sig", x |-> x]
CondE(x, y, z) == [e |-> "cond", x |-> x, y |-> y, z |-> z]
AndE(x, y) == [e |-> "and", x |-> x, y |-> y]

\* the functions handed to createMemo
MemoFns == {SigE("a"), CondE("c", "a", "b"), AndE("a", "b")}

\* the functions handed to createEffect
Bodies ==
    { <<Rd("a")>>,
      <<Rd("b")>>,
      <<Rd(MemoSig)>>,
      <<Rd("a"), Rd(MemoSig)>>,
      <<Branch("c", "a", "b")>>,
      <<Create("b"), Rd("a")>>,
      <<Wr("b", Num(1)), Rd("a")>> }

\* the signals an expression and a statement name
ExprSigs(f) ==
    CASE f.e = "sig" -> {f.x}
      [] f.e = "and" -> {f.x, f.y}
      [] OTHER -> {f.x, f.y, f.z}

StmtSigs(st) ==
    CASE st.op = "branch" -> {st.x, st.y, st.z}
      [] st.op = "memo" -> {st.x} \cup ExprSigs(st.f)
      [] st.op = "text" -> ExprSigs(st.f)
      [] OTHER -> {st.x}

BodySigs(b) == UNION {StmtSigs(b[i]) : i \in 1..Len(b)}

\* a body that only reads signals
IsReader(b) == \A i \in 1..Len(b) : b[i].op \in {"read", "branch"}

\* ------------------------------------------------------------------ state
VARIABLES
    eng,    \* the MelodiReactive instance with its signals and effects
    build,  \* which build of createSignal runs: "ts" (src/melodijs.ts) or "js" (melodijs.js)
    last,   \* the operation performed last, with the state it started from
    comp,   \* the Component instances
    maker,  \* what made the state object of field x: "Component" or "MelodiStore"
    data,   \* the initial value of field x, as data() / state() returns it
    dom,    \* per component: its native listeners, its host element, its lifecycle
    vfor,   \* a keyed v-for block: the parent's child nodes and the block's itemMap
    router, \* the MelodiRouter instance and window.location.hash
    bus,    \* nested components: their $on handlers, their elements, the last $emit
    vif,    \* v-if blocks of a mounted component: their effects and rendered elements
    form,   \* an element bound with v-model and the state property it is bound to
    nest,   \* a parent component mounting the nested components of its template
    view,   \* a router-view: its container and the route components it mounted
    entries \* the item and index the itemMap of the keyed v-for holds for each key

compVars == <<comp, maker, data>>
\* what the reactivity engine and the state setters never touch
restVars == <<dom, vfor, router, bus, vif, form, nest, view, entries>>
vars == <<eng, build, last, comp, maker, data, dom, vfor, router, bus, vif, form, nest, view, entries>>

\* eng.v[s]             value of signal s                (let v)
\* eng.subscribers[s]   subscriber Set of s, in insertion order
\* eng.currentEffect    the tracking context, Null when none
\* eng.body[e]          the function of effect e, <<>> while e does not exist
\* eng.nEffects         number of effect functions created so far
\* eng.memoEffect       the effect created by createMemo, Null before
\* eng.runs[e]          how often e ran during the last operation
\* eng.reads[e]         the signals e read during its most recent run
\* eng.text[e]          nodeValue of the text node that interpolation effect e writes
\* eng.thrown           the last operation ended with an exception (stack exhausted)
\* eng.seen             what the recorded reads of the last operation returned
\* eng.full             the last operation needed more than MaxEff effects

EngInit ==
    [ v |-> [s \in Sigs |-> IF s = MemoSig THEN Undefined ELSE Num(0)],
      subscribers |-> [s \in Sigs |-> <<>>],
      currentEffect |-> Null,
      body |-> [e \in Eff |-> <<>>],
      nEffects |-> 0,
      memoEffect |-> Null,
      runs |-> [e \in Eff |-> 0],
      reads |-> [e \in Eff |-> {}],
      text |-> [e \in Eff |-> ""],
      thrown |-> FALSE,
      seen |-> <<>>,
      full |-> FALSE ]

\* membership in a subscriber Set
InSeq(x, q) == \E i \in 1..Len(q) : q[i] = x

Subscribed(R, e) == {s \in Sigs : InSeq(e, R.subscribers[s])}

\* ------------------------------------------------------------------ createSignal
\* read(): if (self._currentEffect) subscribers.add(self._currentEffect); return v
\* by is the effect whose function performs the read (Null outside effects)
readUntracked(R, by, s) ==
    IF by = Null THEN R ELSE [R EXCEPT !.reads[by] = @ \cup {s}]
read(R, by, s) ==
    LET tracked ==
            IF R.currentEffect # Null /\ ~InSeq(R.currentEffect, R.subscribers[s])
            THEN [R EXCEPT !.subscribers[s] = Append(@, R.currentEffect)]
            ELSE R
    IN  IF by = Null THEN tracked
        ELSE [tracked EXCEPT !.reads[by] = @ \cup {s}]

\* the test that makes write return early
\* ts: if (isPrimitive && v === next) return;    js: if (v === next) return;
SkipsNotifyNever(old, next) == FALSE
SkipsNotify(old, next) ==
    IF build = "ts"
    THEN IsPrimitive(next) /\ StrictEq(old, next)
    ELSE StrictEq(old, next)

\* String(v)
RECURSIVE Join(_)
String(x) ==
    CASE x.k = "num" -> ToString(x.n)
      [] x.k = "nan" -> "NaN"
      [] x.k = "undef" -> "undefined"
      [] x.k = "null" -> "null"
      [] x.k = "arr" -> Join(x.items)
      [] x.k = "text" -> x.n
      [] x.k = "bool" -> IF x.n THEN "true" ELSE "false"
      [] OTHER -> "[object Object]"
\* Array.prototype.join: null and undefined elements give the empty string
Join(items) ==
    IF items = <<>> THEN ""
    ELSE (IF Head(items).k \in {"undef", "null"} THEN "" ELSE
          IF Head(items).k = "num" THEN ToString(Head(items).n) ELSE "[object Object]")
         \o (IF Len(items) > 1 THEN "," \o Join(Tail(items)) ELSE "")

\* _evalExpression: (res === undefined || res === null) ? '' : res, and the
\* interpolation effect: textNode.nodeValue = String(val)
nodeValue(res) == IF res.k \in {"undef", "null"} THEN "" ELSE String(res)

RECURSIVE write(_, _, _, _)
RECURSIVE Notify(_, _, _, _)
RECURSIVE NotifyCaught(_, _, _, _)
RECURSIVE effect(_, _, _)
RECURSIVE ExecStmts(_, _, _, _)
RECURSIVE createEffect(_, _, _)

\* fn() of an expression: the reads it performs and the value it returns
Eval(R, by, f) ==
    CASE f.e = "sig" -> [R |-> read(R, by, f.x), val |-> R.v[f.x]]
      [] f.e = "cond" ->
            LET R1 == read(R, by, f.x)
            IN  IF Truthy(R.v[f.x])
                THEN [R |-> read(R1, by, f.y), val |-> R.v[f.y]]
                ELSE [R |-> read(R1, by, f.z), val |-> R.v[f.z]]
      [] f.e = "and" ->
            LET R1 == read(R, by, f.x)
            IN  IF Truthy(R.v[f.x])
                THEN [R |-> read(R1, by, f.y), val |-> R.v[f.y]]
                ELSE [R |-> R1, val |-> R.v[f.x]]

\* the value of an expression on the current signal values, reading nothing
Value(R, f) == Eval(R, Null, f).val

\* write(next): v = next; subscribers.forEach(fn => fn())
write(R, s, next, d) ==
    IF SkipsNotify(R.v[s], next) THEN R
    ELSE Notify([R EXCEPT !.v[s] = next], s, 1, d)

\* Set.prototype.forEach: visits the members in insertion order, those added
\* during the iteration included; an exception ends the iteration
NotifyCaught(R, s, i, d) ==
    IF i > Len(R.subscribers[s]) THEN R
    ELSE NotifyCaught([effect(R, R.subscribers[s][i], d - 1) EXCEPT !.thrown = FALSE],
                      s, i + 1, d)
Notify(R, s, i, d) ==
    IF R.thrown \/ i > Len(R.subscribers[s]) THEN R
    ELSE Notify(effect(R, R.subscribers[s][i], d - 1), s, i + 1, d)

\* one statement of the function of effect e
Exec(R, e, st, d) ==
    CASE st.op = "read" -> read(R, e, st.x)
      [] st.op = "branch" ->
            LET R1 == read(R, e, st.x)
            IN  IF Truthy(R.v[st.x]) THEN read(R1, e, st.y) ELSE read(R1, e, st.z)
      [] st.op = "write" -> write(R, st.x, st.val, d)
      [] st.op = "create" -> createEffect(R, <<Rd(st.x)>>, d)
      [] st.op = "snap" ->
            [read(R, e, st.x) EXCEPT !.seen = Append(@, [x |-> st.x, val |-> R.v[st.x]])]
      [] st.op = "throw" ->
            LET R1 == read(R, e, st.x)
            IN  IF Truthy(R.v[st.x]) THEN [R1 EXCEPT !.thrown = TRUE] ELSE R1
      [] st.op = "flip" ->
            write(read(R, e, st.x), st.x,
                  IF R.v[st.x] = Num(0) THEN Num(1) ELSE Num(0), d)
      [] st.op = "memo" ->
            LET r == Eval(R, e, st.f) IN write(r.R, st.x, r.val, d)
      [] st.op = "text" ->
            LET r == Eval(R, e, st.f) IN [r.R EXCEPT !.text[e] = nodeValue(r.val)]

ExecStmts(R, e, stmts, d) ==
    IF stmts = <<>> \/ R.thrown \/ R.full THEN R
    ELSE ExecStmts(Exec(R, e, Head(stmts), d), e, Tail(stmts), d)

\* what the finally clause of effect() leaves in _currentEffect
AfterRun(before) == Null

\* function effect() { self._currentEffect = effect; try { fn(); } finally { self._currentEffect = null; } }
effect(R, e, d) ==
    IF d <= 0 THEN [R EXCEPT !.thrown = TRUE, !.currentEffect = AfterRun(R.currentEffect)]
    ELSE
        LET R1 == [R EXCEPT !.currentEffect = e,
                            !.runs[e] = @ + 1,
                            !.reads[e] = {}]
            R2 == ExecStmts(R1, e, R.body[e], d)
        IN  [R2 EXCEPT !.currentEffect = AfterRun(R.currentEffect)]

\* createEffect(fn): a new effect function, run at once
createEffect(R, fn, d) ==
    IF R.nEffects >= MaxEff THEN [R EXCEPT !.full = TRUE]
    ELSE effect([R EXCEPT !.nEffects = @ + 1, !.body[R.nEffects + 1] = fn],
                R.nEffects + 1, d - 1)

\* createMemo(fn): const [read, write] = createSignal(undefined);
\*                 createEffect(() => { write(fn()) }); return read
createMemoOnce(R, f, d) ==
    LET r == Eval(R, Null, f)
    IN  [write(r.R, MemoSig, r.val, d) EXCEPT !.memoEffect = R.nEffects + 1,
                                              !.nEffects = R.nEffects + 1,
                                              !.body[R.nEffects + 1] = <<MemoStmt(MemoSig, f)>>]
createMemo(R, f, d) ==
    [createEffect(R, <<MemoStmt(MemoSig, f)>>, d) EXCEPT !.memoEffect = R.nEffects + 1]

\* ------------------------------------------------------------------ operations
\* the per-operation observations start afresh
Fresh(R) ==
    [R EXCEPT !.runs = [e \in Eff |-> 0], !.thrown = FALSE, !.full = FALSE, !.seen = <<>>]

\* what an operation on signal s remembers of the state R it started from:
\* the value of s, its subscribers, the effects whose latest run read s, and
\* the number of effects
Op(name, s, next, R) ==
    [op |-> name, s |-> s, next |-> next,
     old |-> IF s \in Sigs THEN R.v[s] ELSE Undefined,
     subscribers |-> IF s \in Sigs THEN R.subscribers[s] ELSE <<>>,
     readers |-> {e \in Eff : s \in R.reads[e]},
     nEffects |-> R.nEffects]

NoOp == Op("init", "", Undefined, EngInit)

\* the signals that exist
Existing(R) == IF R.memoEffect = Null THEN Plain ELSE Sigs

\* top-level createEffect(fn)
DoCreateEffect(fn) ==
    /\ eng.nEffects < MaxEff
    /\ BodySigs(fn) \subseteq Existing(eng)
    /\ LET R == createEffect(Fresh(eng), fn, MaxDepth)
       IN  /\ ~R.full
           /\ eng' = R
    /\ last' = Op("createEffect", "", Undefined, eng)
    /\ UNCHANGED <<build, compVars, restVars>>

\* top-level createMemo(fn)
DoCreateMemo(f) ==
    /\ eng.nEffects < MaxEff
    /\ eng.memoEffect = Null
    /\ LET R == createMemo(Fresh(eng), f, MaxDepth)
       IN  /\ ~R.full
           /\ eng' = R
    /\ last' = Op("createMemo", MemoSig, Undefined, eng)
    /\ UNCHANGED <<build, compVars, restVars>>

\* write(next) called from outside any effect
DoWrite(s, next) ==
    /\ LET R == write(Fresh(eng), s, next, MaxDepth)
       IN  /\ ~R.full
           /\ eng' = R
    /\ last' = Op("write", s, next, eng)
    /\ UNCHANGED <<build, compVars, restVars>>

\* ------------------------------------------------------------------ components
\* two components: c1 interpolates field x and the store, c2 only the store
Comps == {"c1", "c2"}

\* the interpolations {{ expr }} of a component's template, in document order
Templates(c) ==
    IF c = "c1"
    THEN { <<SigE(FieldSig)>>,
           <<AndE(FieldSig, StoreSig)>>,
           <<SigE(FieldSig), SigE(StoreSig)>> }
    ELSE { <<SigE(StoreSig)>> }

\* what data() / state() may return for field x
DataInits == {NullV, Arr(<<>>, "raw"), Rec(Num(0))}

\* what a handler may assign to field x, and to the store's field
FieldInputs == {Num(1), Rec(Num(0)), Arr(<<Num(1), Num(0)>>, "raw"), Arr(<<Rec(Num(0))>>, "raw")}
StoreInputs == {Num(0), Num(1)}

\* the in-place mutations of an array
Methods == {"push", "pop", "shift", "unshift", "splice", "sort", "reverse", "index"}

\* where a nested write lands: 1 is x.f (x[0].f in an array), 2 is x.g.f,
\* 3 is x.g.h.f
Depths == {1, 2, 3}

CompInit == [c \in Comps |-> [phase |-> "none", unmounted |-> FALSE,
                               effects |-> <<>>, created |-> {}]]

\* what an operation of the component layer remembers: the subscribers s had
CompOp(name, s, R) == Op(name, s, Undefined, [R EXCEPT !.v = EngInit.v])

\* _makeReactiveArray(arr, setter): the Proxy standing for arr
makeReactiveArray(arr, by) == [arr EXCEPT !.px = by]

\* Component._makeReactive defines the wrapping setter only in the branch
\* taken when the initial value is an array; MelodiStore.install always
WrapsAssigned(init) ==
    IF maker = "Component" THEN init.k = "arr" ELSE TRUE

\* the value the signal of field x holds after construction
\* (Component._makeReactive / MelodiStore.install)
InitialValue(init) ==
    IF init.k = "arr"
    THEN makeReactiveArray(init, IF maker = "Component" THEN "comp" ELSE "store")
    ELSE init

\* the property setter of field x: what it hands to the signal's write
Assigned(newVal) ==
    IF newVal.k = "arr" /\ WrapsAssigned(data)
    THEN makeReactiveArray(newVal, IF maker = "Component" THEN "comp" ELSE "store")
    ELSE newVal

\* Array.prototype.sort without comparator orders by the elements' strings:
\* "0" < "1" < "[object Object]"
SortKey(x) == IF x.k = "num" THEN x.n ELSE 91
RECURSIVE Insert(_, _)
Insert(x, sorted) ==
    IF sorted = <<>> THEN <<x>>
    ELSE IF SortKey(x) < SortKey(Head(sorted)) THEN <<x>> \o sorted
    ELSE <<Head(sorted)>> \o Insert(x, Tail(sorted))
RECURSIVE Sort(_)
Sort(items) ==
    IF items = <<>> THEN <<>>
    ELSE Insert(items[Len(items)], Sort(SubSeq(items, 1, Len(items) - 1)))
RECURSIVE Reverse(_)
Reverse(items) == IF items = <<>> THEN <<>> ELSE Append(Reverse(Tail(items)), Head(items))

\* the array after push(1), pop(), shift(), unshift(0), splice(0, 1), sort(),
\* reverse(), and [0] = 1
Mutated(m, items) ==
    CASE m = "push" -> Append(items, Num(1))
      [] m = "pop" -> IF items = <<>> THEN <<>> ELSE SubSeq(items, 1, Len(items) - 1)
      [] m \in {"shift", "splice"} -> IF items = <<>> THEN <<>> ELSE Tail(items)
      [] m = "unshift" -> <<Num(0)>> \o items
      [] m = "sort" -> Sort(items)
      [] m = "reverse" -> Reverse(items)
      [] m = "index" -> IF items = <<>> THEN <<Num(1)>> ELSE [items EXCEPT ![1] = Num(1)]

\* the get trap of each kind of object: what a property read returns when the
\* property holds an object.  Component's array Proxy and plain objects hand
\* out the raw object; MelodiStore's array Proxy hands out a _makeDeepReactive
\* Proxy ("deep1"), whose get trap hands out one more Proxy ("deep2"), whose
\* get trap hands out raw objects
GetTrap(w) ==
    CASE w = "store" -> "deep1"
      [] w = "deep1" -> "deep2"
      [] OTHER -> "raw"
RECURSIVE Gets(_, _)
Gets(w, n) == IF n = 0 THEN w ELSE Gets(GetTrap(w), n - 1)

\* the set trap: every Proxy calls its trigger, a raw object calls nothing
SetTrapTriggers(w) == w # "raw"

\* the object on which the nested write at depth d sets its field
Target(root, d) ==
    IF root.k = "rec" THEN Gets("raw", d - 1) ELSE Gets(root.px, d)

\* the root value with the nested field replaced
WithLeaf(root, val) ==
    IF root.k = "rec" THEN [root EXCEPT !.leaf = val]
    ELSE [root EXCEPT !.items[1].leaf = val]

HasNested(root) ==
    \/ root.k = "rec"
    \/ root.k = "arr" /\ root.items # <<>> /\ root.items[1].k = "rec"

\* ---- template nodes other than interpolations
\* <input v-model="x">, <input type="checkbox" v-model="x">, <select v-model="x">, ...
VModelEl(tag, type) == [e |-> "vmodel", tag |-> tag, type |-> type]
\* <button @click="handler">
OnEl(ev) == [e |-> "on", tag |-> "button", type |-> ev]
\* the tag of the nested component c2
ChildEl == [e |-> "child", tag |-> "c2", type |-> ""]

\* a native listener: the element (by its position in the template) and the event
Listener(node, ev) == [node |-> node, ev |-> ev]

\* dom[c].listeners   the array _listeners
\* dom[c].attached    the listeners the elements of c carry (addEventListener)
\* dom[c].appended    the host element holds the component's fragment
\* dom[c].log         what the component did to the document and its hooks, in order
\* dom[c].pending     the template a suspended mount is fetching
\* dom[c].nodes       number of template nodes walked so far
\* dom[c].child       the fragment holds the tag of the nested component
DomInit == [c \in Comps |-> [listeners |-> <<>>, attached |-> {}, appended |-> FALSE,
                             log |-> <<>>, pending |-> <<>>, nodes |-> 0,
                             child |-> FALSE]]

\* ---- the document around a keyed v-for
\* largest key, and so longest list without repeated keys
MaxKey == 3
Keys == 1..MaxKey
\* the key '' (the empty string), which _evalExpression returns for an
\* expression whose value is null or undefined
EmptyKey == 0
MapKeys == Keys \cup {EmptyKey}

\* nodes: the element made for a key (made tells the element from the one
\* that stood for the same key when the run began), the v-for anchor comment, a static
\* sibling written before the v-for element, and no node (null)
El(key, made) == [kind |-> "el", key |-> key, made |-> made]
Anchor == [kind |-> "anchor", key |-> 0, made |-> 0]
Static == [kind |-> "static", key |-> 0, made |-> 0]
NoNode == [kind |-> "null", key |-> 0, made |-> 0]

\* vfor.children   childNodes of the anchor's parent
\* vfor.itemMap    key -> made of the element tracked for the key, 0 when absent
\* vfor.inserts / removes / created   insertBefore calls, removeChild calls and
\*                 elements created by the last run of the effect
\* vfor.keys        the keys of the list the last run rendered
\* vfor.items       the values of the key expression on the items of that list
\* vfor.warned      the warnings 'v-for :key evaluated to null/undefined' of the run
\* vfor.prevMap     the itemMap the run before the last one left
\* vfor.same        the last run found the key sequence of the run before it
\* vfor.permuted    the last run found the same keys in another order
VForInit(children) ==
    [children |-> children,
     itemMap |-> [k \in MapKeys |-> 0],
     inserts |-> 0, removes |-> 0, created |-> 0,
     keys |-> <<>>, prevMap |-> [k \in MapKeys |-> 0],
     items |-> <<>>, warned |-> 0,
     same |-> FALSE, permuted |-> FALSE]

\* entries.entry[k]   { item, index } of the itemMap entry of key k: the
\*                    position the item had in the list and the list it came
\*                    from; NoEntry when the key is not tracked
\* entries.gen        the list the last run rendered: every list the
\*                    application assigns holds item objects of its own
NoEntry == [index |-> 0 - 1, item |-> 0]
EntriesInit == [entry |-> [k \in MapKeys |-> NoEntry], gen |-> 0]

\* ---- routes and locations
\* most segments of a path
MaxSegs == 3
\* most hashchange events waiting to be handled
MaxEvents == 2

\* a path by its non-empty segments; normal tells the spelling "/a/b" from
\* spellings with a trailing or a doubled slash ("/a/b/", "//a/b")
Path(segs, normal) == [segs |-> segs, normal |-> normal]
NoPath == [segs |-> <<"?">>, normal |-> FALSE]
\* a location hash: path and query string, the query by its key=value pairs
Hash(path, query) == [path |-> path, query |-> query]

\* a route record: its path by segments, its component, its children
\* (hasChildren is !!route.children)
Leaf(path, name) == [path |-> path, name |-> name, hasChildren |-> FALSE, children |-> <<>>]
Parent(path, name, children) ==
    [path |-> path, name |-> name, hasChildren |-> TRUE, children |-> children]

\* values of the router's signals
Str(p) == [k |-> "str", n |-> p]
Boxed(x) == [k |-> "obj", n |-> x]

\* router.routes        the route table
\* router.variant       which source of _matchRoute runs: "router.ts" or "part_000"
\* router.hook          the beforeEach hook: "none", "auth" (redirects the
\*                      protected paths to /login), "block" (never calls
\*                      next for the protected paths)
\* router.installed     install(app) ran
\* router.hash          window.location.hash
\* router.events        hashchange events dispatched and not yet handled
\* router.lastCommit    the path next() committed last, NoPath before
\* router.blocked       the last run of _handleRouteChange ended without next()
\* router.prev          the signals' values when that run began
\* router.pending       the paths whose next() the hook holds to call later
\* router.requested     the path the hook answered with next(redirectPath), as
\*                      long as no other navigation was asked for since
RouterInit(routes, variant, hook, hash) ==
    [routes |-> routes, variant |-> variant, hook |-> hook, installed |-> FALSE,
     hash |-> hash, events |-> 0, lastCommit |-> NoPath, blocked |-> FALSE,
     prev |-> <<>>, requested |-> NoPath, pending |-> {}]

\* most handlers one component registers for the event
MaxHandlers == 2

\* three nested components: _mountNestedComponents of the grandparent made the
\* parent, that of the parent made the child
Tree == {"child", "parent", "grand"}
NoComp == "none"
\* comp._parent
ParentOf(c) ==
    CASE c = "child" -> "parent"
      [] c = "parent" -> "grand"
      [] OTHER -> NoComp

\* what a handler does when called: it returns or it throws
HandlerKinds == {"ok", "throws"}

\* bus.events[c]      c._events['x'], the handlers by what they do
\* bus.inDom[c]       c.el is still inside the element of its parent
\* bus.emitter        the component whose state.$emit('x') ran last
\* bus.calls          the handlers that $emit called, in order:
\*                    <<component, index in its _events['x'], what it did>>
BusInit ==
    [events |-> [c \in Tree |-> <<>>],
     inDom |-> [c \in Tree |-> TRUE],
     emitter |-> NoComp,
     calls |-> <<>>]

\* most elements the v-if blocks clone
MaxMade == 3

\* the v-if elements of a template: "outer" is a child of the template's
\* root, "inner" is a child of the outer v-if element
Blocks == {"outer", "inner"}
NoEl == 0
\* an element cloned by a v-if effect
\*   block      the v-if it renders
\*   attached   it is a child of the node that holds the anchor
\*   classes    its transition classes
\*   raf        the requestAnimationFrame callbacks waiting for the next frame
\*   onEnd      its transitionend listeners
\*   elapsed    more than the fallback delay passed since its transition began
Blank ==
    [block |-> "none", attached |-> FALSE, classes |-> {}, raf |-> {}, onEnd |-> {},
     elapsed |-> FALSE]

\* vif.tpl          "top": <div v-if="show">, "nested": <div v-if="show"><p v-if="more">
\* vif.name         dataset.melodiTransition of the parent of the outer anchor, "" if none
\* vif.mounted      the initial _render ran
\* vif.val[b]       the state field the condition of b reads
\* vif.queue        _postMountEffects
\* vif.effect[b]    the effect of the current anchor of b exists
\* vif.currentEl[b] the closure variable currentEl of that effect
\* vif.made         elements cloned so far
\* vif.els[i]       the i-th element cloned
VIfInit ==
    [tpl |-> "top", name |-> "", mounted |-> FALSE,
     val |-> [b \in Blocks |-> Num(0)],
     queue |-> <<>>,
     effect |-> [b \in Blocks |-> FALSE],
     currentEl |-> [b \in Blocks |-> NoEl],
     made |-> 0,
     els |-> [i \in 1..MaxMade |-> Blank]]

\* the options of a <select>
Options == {"a", "b"}

\* form.kind        "text" (<input>, <textarea>), "checkbox", "select"
\* form.mounted     _walk ran on the element
\* form.prop        this.state[prop]
\* form.value       inputEl.value
\* form.checked     inputEl.checked
\* form.runs        runs of the model-to-view effect during the last operation
\* form.calls       calls of the handler during the last operation
\* form.op          the last operation: "mount", "input" or "write"
FormInit ==
    [kind |-> "text", mounted |-> FALSE, prop |-> JsString(""), value |-> "", checked |-> FALSE,
     runs |-> 0, calls |-> 0, op |-> "none"]

\* most nested component tags in the template of the parent
MaxKids == 3

\* how the mount of a nested component ends: "ok"; "throws", mount throws
\* before it returns its promise (data() throws); "rejects", the promise of
\* _render is rejected (document.querySelector(tpl.el) throws in _compile)
Outcomes == {"ok", "throws", "rejects"}

\* nest.kids         the nested components in the order of the loop, by outcome
\* nest.i            the node the loop of _mountNestedComponents is at, 0 before
\* nest.mounted      the nodes marked __melodijs_mounted
\* nest.placeholder  the nodes that hold a visible fallback
\* nest.errors       calls of console.error
\* nest.hook         the mounted hook of the parent ran
NestInit ==
    [kids |-> <<>>, i |-> 0, mounted |-> {}, placeholder |-> {}, errors |-> 0,
     hook |-> FALSE]

\* most route components one router-view creates
MaxRuns == 3

NoRoute == [name |-> "none", tpl |-> "inline", fade |-> FALSE]
\* the entry of the matched chain at the depth of the view: whether its
\* component's template is a string or { url }, and whether the route
\* declares a transition name
RouteEntry(name, tpl, fade) == [name |-> name, tpl |-> tpl, fade |-> fade]

\* a component created by the effect of the view
\*   state        "fetching" while _compile awaits fetch(tpl.url), then "done"
\*   inContainer  its element is in the container: the container itself in
\*                router.ts, the wrapper made for it in part_000
\*   appended     its fragment is in its element
\*   unmounts     calls of its unmount(), each calling the unmounted hook
\*   removals     calls of container.removeChild on its wrapper
\*   timer        the fallback timeout of its leave is pending
\*   listener     the transitionend listener of its leave is on its wrapper
NewComp(route) ==
    [name |-> route.name, fade |-> route.fade, state |-> "fetching", inContainer |-> TRUE,
     appended |-> FALSE, unmounts |-> 0, removals |-> 0, timer |-> FALSE,
     listener |-> FALSE]

\* view.variant   "router.ts" or "part_000"
\* view.comps     the components the effect created, in order
\* view.current   currentComponent, as an index in comps, 0 for null
ViewInit == [variant |-> "router.ts", comps |-> <<>>, current |-> 0]

\* the parts of the page a specification leaves out stay as constructed;
\* open names the variables whose initial value the specification chooses
Idle(open) ==
    /\ IF "dom" \in open THEN TRUE ELSE dom = DomInit
    /\ IF "vfor" \in open THEN TRUE ELSE vfor = VForInit(<<Anchor>>)
    /\ IF "router" \in open THEN TRUE
       ELSE router = RouterInit(<<>>, "router.ts", "none", Hash(Path(<<>>, TRUE), {}))
    /\ IF "bus" \in open THEN TRUE ELSE bus = BusInit
    /\ IF "entries" \in open THEN TRUE ELSE entries = EntriesInit
    /\ IF "view" \in open THEN TRUE ELSE view = ViewInit
    /\ IF "nest" \in open THEN TRUE ELSE nest = NestInit
    /\ IF "form" \in open THEN TRUE ELSE form = FormInit
    /\ IF "vif" \in open THEN TRUE ELSE vif = VIfInit

RestInit == Idle({})

\* second listener of a two-way binding:
\* el.tagName === 'SELECT' || type === 'checkbox' || type === 'radio'
ListensChange(el) == el.tag = "select" \/ el.type \in {"checkbox", "radio"}

\* v-model is honoured on INPUT, TEXTAREA and SELECT only
IsFormControl(el) == el.tag \in {"input", "textarea", "select"}

\* _walk on one template node: an interpolation creates its effect; a two-way
\* binding creates the model-to-view effect, adds `input` (and `change`) and
\* pushes one entry on _listeners; an event binding adds and pushes its listener
walk(S, c, node) ==
    LET id == S.eng.nEffects + 1
        n == S.dom[c].nodes + 1
        S0 == [S EXCEPT !.dom[c].nodes = n]
        withEffect(body) ==
            LET R == createEffect(S0.eng, body, MaxDepth)
            IN  [S0 EXCEPT !.eng = R,
                           !.comp = IF R.full THEN @
                                    ELSE [@ EXCEPT ![c].effects = Append(@, id),
                                                   ![c].created = @ \cup {id}]]
    IN  CASE node.e = "vmodel" ->
                IF ~IsFormControl(node) THEN S0
                ELSE LET S1 == withEffect(<<Rd(FieldSig)>>)
                     IN  [S1 EXCEPT
                            !.dom[c].attached =
                                @ \cup {Listener(n, "input")}
                                  \cup (IF ListensChange(node) THEN {Listener(n, "change")} ELSE {}),
                            !.dom[c].listeners = Append(@, Listener(n, "input"))]
          [] node.e = "on" ->
                [S0 EXCEPT !.dom[c].attached = @ \cup {Listener(n, node.type)},
                           !.dom[c].listeners = Append(@, Listener(n, node.type))]
          [] node.e = "child" -> [S0 EXCEPT !.dom[c].child = TRUE]
          [] OTHER -> withEffect(<<Text(node)>>)

\* _processNodeList: _walk over the template's nodes, in document order
RECURSIVE Compile(_, _, _)
Compile(S, c, tpl) ==
    IF tpl = <<>> \/ S.eng.full THEN S
    ELSE Compile(walk(S, c, Head(tpl)), c, Tail(tpl))

\* _compile once the template text is there: the fragment is built and the
\* host element is emptied
compile(S, c, tpl) ==
    LET S1 == Compile(S, c, tpl)
    IN  [S1 EXCEPT !.comp[c].phase = "compiled",
                   !.dom[c].appended = FALSE,
                   !.dom[c].log = Append(@, "compile")]

\* the state the operators of this layer work on
Here(R) == [eng |-> R, comp |-> comp, dom |-> dom]

\* field x can be reached: its state object exists
FieldExists == maker = "MelodiStore" \/ comp["c1"].phase # "none"
SomeState == \E c \in Comps : comp[c].phase # "none"

\* Component.mount: state is made reactive; the first await of _render is
\* reached at once when the template is a string (tpl given) and only after
\* the fetch when it is {url}
mountSync(S, c, tpl, url) ==
    LET S0 == IF c = "c1" /\ maker = "Component"
              THEN [S EXCEPT !.eng.v[FieldSig] = InitialValue(data)]
              ELSE S
    IN  IF url
        THEN [S0 EXCEPT !.comp[c].phase = "fetching", !.dom[c].pending = tpl]
        ELSE compile(S0, c, tpl)

Commit(S) ==
    /\ ~S.eng.full
    /\ eng' = S.eng
    /\ comp' = S.comp
    /\ dom' = S.dom

Mount(c, tpl) ==
    /\ comp[c].phase = "none"
    /\ Commit(mountSync(Here(Fresh(eng)), c, tpl, FALSE))
    /\ last' = CompOp("mount", "", eng)
    /\ UNCHANGED <<build, maker, data, vfor, router, bus, vif, form, nest, view, entries>>

\* Component.mount with template: {url}: suspended in _compile at the fetch
MountUrl(c, tpl) ==
    /\ comp[c].phase = "none"
    /\ Commit(mountSync(Here(Fresh(eng)), c, tpl, TRUE))
    /\ last' = CompOp("mountUrl", "", eng)
    /\ UNCHANGED <<build, maker, data, vfor, router, bus, vif, form, nest, view, entries>>

\* the fetch completes: _compile goes on
Fetched(c) ==
    /\ comp[c].phase = "fetching"
    /\ Commit(compile([Here(Fresh(eng)) EXCEPT !.dom[c].pending = <<>>], c, dom[c].pending))
    /\ last' = CompOp("fetched", "", eng)
    /\ UNCHANGED <<build, maker, data, vfor, router, bus, vif, form, nest, view, entries>>

\* _render after `await this._compile()`: beforeMount hook, the fragment is
\* appended, the queue _postMountEffects is run, then _mountNestedComponents: the nested component's mount starts
\* and is awaited; without nested components the mounted hook follows at once
Mounted(c) ==
    /\ comp[c].phase = "compiled"
    /\ LET S0 == [Here(Fresh(eng)) EXCEPT
                    !.dom[c].appended = TRUE,
                    !.dom[c].log = @ \o <<"beforeMount", "append", "effects">>]
       IN  IF dom[c].child /\ comp["c2"].phase = "none"
           THEN \E tpl \in Templates("c2") :
                    Commit([mountSync(S0, "c2", tpl, FALSE) EXCEPT
                               !.comp[c].phase = "nesting",
                               !.dom[c].log = Append(@, "nested")])
           ELSE Commit([S0 EXCEPT !.comp[c].phase = "mounted",
                                  !.dom[c].log = Append(@, "mounted")])
    /\ last' = CompOp("mounted", "", eng)
    /\ UNCHANGED <<build, maker, data, vfor, router, bus, vif, form, nest, view, entries>>

\* _render after `await this._mountNestedComponents()`: the mounted hook
Nested(c) ==
    /\ comp[c].phase = "nesting"
    /\ comp["c2"].phase = "mounted"
    /\ Commit([Here(Fresh(eng)) EXCEPT !.comp[c].phase = "mounted",
                                       !.dom[c].log = Append(@, "mounted")])
    /\ last' = CompOp("nested", "", eng)
    /\ UNCHANGED <<build, maker, data, vfor, router, bus, vif, form, nest, view, entries>>

\* the dispose function createEffect returns: its body is empty
Dispose(R, e) == R
RECURSIVE DisposeAll(_, _)
DisposeAll(R, es) == IF es = <<>> THEN R ELSE DisposeAll(Dispose(R, Head(es)), Tail(es))

\* _listeners.forEach(l => l.node.removeEventListener(l.ev, l.fn))
Removed(attached, ls) == attached \ {ls[i] : i \in 1..Len(ls)}

\* Component.unmount
Unmount(c) ==
    /\ comp[c].phase # "none"
    /\ ~comp[c].unmounted
    /\ eng' = DisposeAll(Fresh(eng), comp[c].effects)
    /\ comp' = [comp EXCEPT ![c].unmounted = TRUE, ![c].effects = <<>>]
    /\ dom' = [dom EXCEPT ![c].attached = Removed(@, dom[c].listeners),
                          ![c].listeners = <<>>,
                          ![c].appended = FALSE,
                          ![c].log = Append(@, "unmounted")]
    /\ last' = CompOp("unmount", "", eng)
    /\ UNCHANGED <<build, maker, data, vfor, router, bus, vif, form, nest, view, entries>>

\* a handler assigns field x:  this.x = newVal
SetField(newVal) ==
    /\ FieldExists
    /\ eng' = write(Fresh(eng), FieldSig, Assigned(newVal), MaxDepth)
    /\ last' = CompOp("setField", FieldSig, eng)
    /\ UNCHANGED <<build, compVars, restVars>>

\* a handler of any component assigns the store:  this.$store.shared = newVal
SetStore(newVal) ==
    /\ SomeState
    /\ eng' = write(Fresh(eng), StoreSig, newVal, MaxDepth)
    /\ last' = CompOp("setStore", StoreSig, eng)
    /\ UNCHANGED <<build, compVars, restVars>>

\* a handler mutates the array of field x in place:  this.x.push(1), this.x[0] = 1, ...
Mutate(m) ==
    /\ FieldExists
    /\ eng.v[FieldSig].k = "arr"
    /\ Len(Mutated(m, eng.v[FieldSig].items)) <= MaxLen
    /\ LET proxy == [eng.v[FieldSig] EXCEPT !.items = Mutated(m, @)]
           R == [Fresh(eng) EXCEPT !.v[FieldSig] = proxy]
       IN  eng' = IF SetTrapTriggers(proxy.px)
                  THEN write(R, FieldSig, proxy, MaxDepth)
                  ELSE R
    /\ last' = CompOp("mutate", FieldSig, eng)
    /\ UNCHANGED <<build, compVars, restVars>>

\* a handler writes a field nested inside the value of x:
\* this.x.f = 1, this.x.g.f = 1, this.x[0].f = 1, ...
NestedWrite(d) ==
    /\ FieldExists
    /\ HasNested(eng.v[FieldSig])
    /\ LET root == WithLeaf(eng.v[FieldSig], Num(1))
           R == [Fresh(eng) EXCEPT !.v[FieldSig] = root]
       IN  eng' = IF SetTrapTriggers(Target(eng.v[FieldSig], d))
                  THEN write(R, FieldSig, root, MaxDepth)
                  ELSE R
    /\ last' = CompOp("nested", FieldSig, eng)
    /\ UNCHANGED <<build, compVars, restVars>>

Init ==
    /\ eng = EngInit
    /\ build = "ts"
    /\ last = NoOp
    /\ comp = CompInit
    /\ RestInit
    /\ maker = "Component"
    /\ data = Num(0)

InitJs ==
    /\ eng = EngInit
    /\ build = "js"
    /\ last = NoOp
    /\ comp = CompInit
    /\ RestInit
    /\ maker = "Component"
    /\ data = Num(0)

\* an application of two components over the app's store; field x belongs
\* to the state of c1
InitComp ==
    /\ maker = "Component"
    /\ data \in DataInits
    /\ eng = EngInit
    /\ build = "ts"
    /\ last = NoOp
    /\ comp = CompInit
    /\ RestInit

NextComp ==
    \/ \E c \in Comps : \E tpl \in Templates(c) : Mount(c, tpl)
    \/ \E c \in Comps : Mounted(c)
    \/ \E c \in Comps : Unmount(c)
    \/ \E newVal \in FieldInputs : SetField(newVal)
    \/ \E newVal \in StoreInputs : SetStore(newVal)

SpecComp == InitComp /\ [][NextComp]_vars

\* one component whose template shows field x, the field being part of its
\* own data() or of the state of an installed MelodiStore
InitArr ==
    /\ maker \in {"Component", "MelodiStore"}
    /\ data \in DataInits
    /\ eng = [EngInit EXCEPT !.v[FieldSig] =
                  IF maker = "MelodiStore" THEN InitialValue(data) ELSE @]
    /\ build = "ts"
    /\ last = NoOp
    /\ comp = CompInit
    /\ RestInit

NextArr ==
    \/ \E tpl \in Templates("c1") : Mount("c1", tpl)
    \/ \E newVal \in FieldInputs : SetField(newVal)
    \/ \E m \in Methods : Mutate(m)
    \/ \E d \in Depths : NestedWrite(d)

SpecArr == InitArr /\ [][NextArr]_vars

\* ------------------------------------------------------------------ keyed v-for
\* the lists a keyed v-for renders, by the keys of their items (no key twice)
RECURSIVE Perms(_)
Perms(S) ==
    IF S = {} THEN {<<>>}
    ELSE UNION {{<<k>> \o p : p \in Perms(S \ {k})} : k \in S}
Lists == UNION {Perms(S) : S \in SUBSET Keys}

Range(q) == {q[i] : i \in 1..Len(q)}

\* DOM: position of a child, firstChild, nextSibling
IndexOf(ch, x) == CHOOSE i \in 1..Len(ch) : ch[i] = x
firstChild(ch) == IF ch = <<>> THEN NoNode ELSE ch[1]
nextSibling(ch, x) ==
    IF IndexOf(ch, x) = Len(ch) THEN NoNode ELSE ch[IndexOf(ch, x) + 1]

\* DOM: parent.removeChild(x)
removeChildKept(ch, x) == ch
removeChild(ch, x) == SelectSeq(ch, LAMBDA y : y # x)

\* DOM: parent.insertBefore(x, ref). A reference that is x itself stands for
\* x's next sibling; x is taken out of its place first; a null reference appends
insertBeforeNoMove(ch, x, ref) == IF x \in Range(ch) THEN ch ELSE Append(ch, x)
insertBefore(ch, x, ref) ==
    LET r == IF ref = x THEN nextSibling(ch, x) ELSE ref
        rest == removeChild(ch, x)
    IN  IF r = NoNode THEN Append(rest, x)
        ELSE SubSeq(rest, 1, IndexOf(rest, r) - 1) \o <<x>>
             \o SubSeq(rest, IndexOf(rest, r), Len(rest))

\* keysToRemove.forEach: removeChild and itemMap.delete for every old key the
\* new list lacks
RECURSIVE removeOld(_, _, _)
removeOld(W, gone, newKeys) ==
    IF gone = {} THEN W
    ELSE LET key == CHOOSE k \in gone : TRUE
         IN  removeOld([W EXCEPT !.children = removeChild(@, El(key, W.itemMap[key])),
                                 !.removes = @ + 1,
                                 !.itemMap[key] = 0],
                       gone \ {key}, newKeys)

\* the `made` of a new element, given that of the element the key had when
\* the run began (0: none)
NextMade(m) == IF m = 1 THEN 2 ELSE 1

\* newKeys.forEach: a tracked element is moved behind previousElement when
\* `element.nextSibling !== previousElement.nextSibling` (to the front when it
\* is not the parent's firstChild); an untracked key gets a new element
RECURSIVE place(_, _, _)
place(W, newKeys, previousElement) ==
    IF newKeys = <<>> THEN W
    ELSE
      LET key == Head(newKeys)
          ch == W.children
      IN  IF W.itemMap[key] # 0
          THEN LET element == El(key, W.itemMap[key])
                   moves ==
                       IF previousElement # NoNode
                       THEN nextSibling(ch, element) # nextSibling(ch, previousElement)
                       ELSE firstChild(ch) # element
                   ref == IF previousElement # NoNode
                          THEN nextSibling(ch, previousElement)
                          ELSE firstChild(ch)
               IN  place(IF moves
                         THEN [W EXCEPT !.children = insertBefore(ch, element, ref),
                                        !.inserts = @ + 1]
                         ELSE W,
                         Tail(newKeys), element)
          ELSE LET processed == El(key, NextMade(W.prevMap[key]))
                   ref == IF previousElement # NoNode
                          THEN nextSibling(ch, previousElement)
                          ELSE firstChild(ch)
               IN  place([W EXCEPT !.children = insertBefore(ch, processed, ref),
                                   !.inserts = @ + 1,
                                   !.created = @ + 1,
                                   !.itemMap[key] = processed.made],
                         Tail(newKeys), processed)

\* the effect of _handleVFor with :key, run on a list
reconcile(W, newKeys) ==
    LET W0 == [W EXCEPT !.inserts = 0, !.removes = 0, !.created = 0,
                        !.prevMap = W.itemMap,
                        !.keys = newKeys,
                        !.same = (newKeys = W.keys),
                        !.permuted = (Range(newKeys) = Range(W.keys) /\ newKeys # W.keys)]
        gone == {k \in MapKeys : W.itemMap[k] # 0 /\ k \notin Range(newKeys)}
    IN  place(removeOld(W0, gone, newKeys), newKeys, NoNode)

\* _evalExpression on an expression whose value is res
evalExpression(res) == IF res \in {Undefined, NullV} THEN JsString("") ELSE res

\* a value as a key of itemMap
KeyOf(key) == IF key = JsString("") THEN EmptyKey ELSE key.n

\* list.forEach of the keyed branch: the key of every item is evaluated; an
\* item whose key is null or undefined is warned about and left out
RECURSIVE buildKeys(_)
buildKeys(items) ==
    IF items = <<>> THEN [newKeys |-> <<>>, warned |-> 0]
    ELSE LET key == evalExpression(Head(items))
             rest == buildKeys(Tail(items))
         IN  IF key = NullV \/ key = Undefined
             THEN [rest EXCEPT !.warned = @ + 1]
             ELSE [rest EXCEPT !.newKeys = <<KeyOf(key)>> \o @]

\* the effect of _handleVFor with :key, run on a list given by the values
\* of the key expression on its items
render(W, items) ==
    [reconcile(W, buildKeys(items).newKeys) EXCEPT
        !.items = items, !.warned = buildKeys(items).warned]

\* the items of a list of keys
ItemsOf(list) == [i \in DOMAIN list |-> Num(list[i])]

\* the list expression's signal is written (or an item is changed in place):
\* the v-for effect runs on the list
Reconcile(items) ==
    /\ vfor' = render(vfor, items)
    /\ UNCHANGED <<eng, build, last, compVars, dom, router, bus, vif, form, nest, view, entries>>

\* a parent that holds only the v-for, or a static node before it
InitFor ==
    /\ maker = "Component"
    /\ data = Num(0)
    /\ eng = EngInit
    /\ build = "ts"
    /\ last = NoOp
    /\ comp = CompInit
    /\ Idle({"vfor"})
    /\ vfor \in {VForInit(<<Anchor>>), VForInit(<<Static, Anchor>>)}

NextFor == \E list \in Lists : Reconcile(ItemsOf(list))

\* the effect of _handleVFor without :key, run on a list: every element of
\* the run before is removed, then an element is made for every item and
\* inserted before the anchor
RECURSIVE renderItems(_, _)
renderItems(ch, list) ==
    IF list = <<>> THEN ch
    ELSE renderItems(insertBefore(ch, El(Head(list), 1), Anchor), Tail(list))
unkeyed(ch, list) == renderItems(SelectSeq(ch, LAMBDA x : x.kind # "el"), list)

\* newItemMap.get(key).index: the place of the last item with the key
IndexIn(items, key) ==
    (CHOOSE i \in DOMAIN items :
        /\ KeyOf(evalExpression(items[i])) = key
        /\ \A j \in DOMAIN items : KeyOf(evalExpression(items[j])) = key => j <= i) - 1

\* what the run leaves in the entries: itemMap.delete for a vanished key,
\* itemMap.set(key, { element, item, index }) for a key it creates an element
\* for, and nothing for a key whose element it reuses
track(E, W, items, gen) ==
    LET newKeys == buildKeys(items).newKeys
    IN  [entry |-> [k \in MapKeys |->
                      IF k \notin Range(newKeys) THEN NoEntry
                      ELSE IF W.itemMap[k] # 0 THEN E.entry[k]
                      ELSE [index |-> IndexIn(items, k), item |-> gen]],
         gen |-> gen]

\* the list is replaced by a list of new item objects (a refetch, a sort
\* into a new array of copies): the v-for effect runs on it
Replace(items) ==
    /\ vfor' = render(vfor, items)
    /\ entries' = track(entries, vfor, items, 1 + (entries.gen % 2))
    /\ UNCHANGED <<eng, build, last, compVars, dom, router, bus, vif, form, nest, view>>

NextEntries == \E list \in Lists : Replace(ItemsOf(list))

SpecEntries == InitFor /\ [][NextEntries]_vars

SpecFor == InitFor /\ [][NextFor]_vars

\* lists with items whose key is null or undefined among items with
\* distinct proper keys
RECURSIVE SeqsUpTo(_, _)
SeqsUpTo(S, n) ==
    IF n = 0 THEN {<<>>}
    ELSE SeqsUpTo(S, n - 1) \cup {Append(q, x) : q \in {p \in SeqsUpTo(S, n - 1) : Len(p) = n - 1}, x \in S}
ProperAt(items) == {i \in DOMAIN items : items[i].k = "num"}
RawLists ==
    {items \in SeqsUpTo({Num(k) : k \in Keys} \cup {NullV, Undefined}, MaxKey) :
        \A i, j \in ProperAt(items) : items[i] = items[j] => i = j}

NextKeys == \E items \in RawLists : Reconcile(items)

SpecKeys == InitFor /\ [][NextKeys]_vars

\* ------------------------------------------------------------------ router
\* patternPart.startsWith(':') and patternPart.slice(1)
IsParam(seg) == seg \in {":id", ":tab"}
ParamName(seg) == IF seg = ":id" THEN "id" ELSE "tab"

\* objects of params: sets of <<name, value>>, one value per name
Names(P) == {x[1] : x \in P}
\* { ...P, ...Q }
Merge(P, Q) == {x \in P : x[1] \notin Names(Q)} \cup Q
\* for (const key in Q) delete P[key]
DeleteNothing(P, Q) == P
Delete(P, Q) == {x \in P : x[1] \notin Names(Q)}

\* the result null of _extractParams
NoMatch == {<<"null", "null">>}

\* the two length tests at the head of _extractParams
LengthOkExact(partial, np, nq) == np = nq
LengthOk(partial, np, nq) == IF partial THEN nq >= np ELSE np = nq

\* the loop of _extractParams over the pattern's parts
RECURSIVE Bind(_, _, _)
Bind(pattern, path, i) ==
    IF i > Len(pattern) THEN {}
    ELSE LET rest == Bind(pattern, path, i + 1)
         IN  IF rest = NoMatch THEN NoMatch
             ELSE IF IsParam(pattern[i])
                  THEN Merge({<<ParamName(pattern[i]), path[i]>>}, rest)
                  ELSE IF pattern[i] # path[i] THEN NoMatch ELSE rest

\* _extractParams(pattern, path, partial), both already split at "/"
extractParams(pattern, path, partial) ==
    IF ~LengthOk(partial, Len(pattern), Len(path)) THEN NoMatch
    ELSE Bind(pattern, path, 1)

\* fullPath === currentPath: fullPath is spelled normally
SamePath(full, cur) == cur.normal /\ full = cur.segs

\* the test made after the children of a route failed to match:
\* !route.children && fullPath === currentPath
FallbackLeafExact(route, full, cur) == SamePath(full, cur)
FallbackLeaf(route, full, cur) == ~route.hasChildren /\ SamePath(full, cur)

\* the last test on a route without children: router.ts asks for
\* fullPath === currentPath, part_000 returns true
LeafAccepted(variant, full, cur) ==
    IF variant = "router.ts" THEN SamePath(full, cur) ELSE TRUE

Pop(q) == SubSeq(q, 1, Len(q) - 1)

\* findMatch(routes, currentPath, parentPath) on the shared matched / params
RECURSIVE findMatch(_, _, _, _, _, _)
findMatch(variant, routes, cur, parentPath, matched, params) ==
    IF routes = <<>> THEN [ok |-> FALSE, matched |-> matched, params |-> params]
    ELSE
      LET route == Head(routes)
          fullPath == parentPath \o route.path
          routeParams == extractParams(fullPath, cur.segs, route.hasChildren)
          pushed == Append(matched, route.name)
          merged == Merge(params, routeParams)
      IN  IF routeParams = NoMatch
          THEN findMatch(variant, Tail(routes), cur, parentPath, matched, params)
          ELSE IF route.hasChildren
          THEN LET r == findMatch(variant, route.children, cur, fullPath, pushed, merged)
               IN  IF r.ok \/ FallbackLeaf(route, fullPath, cur)
                   THEN [r EXCEPT !.ok = TRUE]
                   ELSE findMatch(variant, Tail(routes), cur, parentPath,
                                  Pop(r.matched), Delete(r.params, routeParams))
          ELSE IF LeafAccepted(variant, fullPath, cur)
               THEN [ok |-> TRUE, matched |-> pushed, params |-> merged]
               ELSE findMatch(variant, Tail(routes), cur, parentPath,
                              matched, Delete(merged, routeParams))

\* _matchRoute(path)
matchRoute(variant, routes, path) == findMatch(variant, routes, path, <<>>, <<>>, {})

\* what the beforeEach hook does with (to, from, next)
LoginPath == Path(<<"login">>, TRUE)
Protected == {Path(<<"admin">>, TRUE), Path(<<"admin", "users">>, TRUE)}
Decision(hook, to) ==
    CASE hook = "auth" /\ to \in Protected -> "redirect"
      [] hook = "block" /\ to \in Protected -> "none"
      [] hook = "defer" -> "later"
      [] OTHER -> "proceed"

\* if (this.beforeEachHook) this.beforeEachHook(newPath, oldPath, next) else next()
CallsIgnoringHook(hook, to) == "proceed"
Calls(hook, to) == IF hook = "none" THEN "proceed" ELSE Decision(hook, to)

\* the state the router's operators work on
Nav(R, rt) == [eng |-> R, router |-> rt]

\* push(path): window.location.hash = path; the browser dispatches hashchange
\* when the hash changed
push(S, hash) ==
    IF hash = S.router.hash THEN S
    ELSE [S EXCEPT !.router.hash = hash, !.router.events = @ + 1]

\* next() without argument: the four signals are written
proceed(S, newPath) ==
    LET m == matchRoute(S.router.variant, S.router.routes, newPath)
        R1 == write(S.eng, "route", Str(newPath), MaxDepth)
        R2 == write(R1, "matched", Boxed(m.matched), MaxDepth)
        R3 == write(R2, "params", Boxed(m.params), MaxDepth)
        R4 == write(R3, "query", Boxed(S.router.hash.query), MaxDepth)
    IN  [S EXCEPT !.eng = R4, !.router.lastCommit = newPath]

\* next(redirectPath): push and return
nextFnNoReturn(S, newPath, redirectPath) == push(proceed(S, newPath), Hash(redirectPath, {}))
nextFn(S, newPath, redirectPath) == push(S, Hash(redirectPath, {}))

\* _handleRouteChange
handleRouteChange(S) ==
    LET newPath == S.router.hash.path
        S0 == [S EXCEPT !.router.prev = [s \in RouterSigs |-> S.eng.v[s]],
                        !.router.blocked = FALSE]
        does == Calls(S.router.hook, newPath)
    IN  CASE does = "proceed" -> proceed(S0, newPath)
          [] does = "redirect" ->
                nextFn([S0 EXCEPT !.router.requested = newPath], newPath, LoginPath)
          [] does = "later" -> [S0 EXCEPT !.router.pending = @ \cup {newPath}]
          [] OTHER -> [S0 EXCEPT !.router.blocked = Decision(S.router.hook, newPath) = "none"]

CommitNav(S) == eng' = S.eng /\ router' = S.router

\* install(app): the signals are created, then the initial _handleRouteChange
Install ==
    /\ ~router.installed
    /\ LET R == [Fresh(eng) EXCEPT !.v["route"] = Str(router.hash.path),
                                   !.v["params"] = Boxed({}),
                                   !.v["query"] = Boxed({}),
                                   !.v["matched"] = Boxed(<<>>)]
       IN  CommitNav(handleRouteChange(Nav(R, [router EXCEPT !.installed = TRUE])))
    /\ last' = CompOp("install", "", eng)
    /\ UNCHANGED <<build, compVars, dom, vfor, bus, vif, form, nest, view, entries>>

\* the mounted hook of a <router-view>, nested or not: the effect that reads
\* router.matched()
MountView ==
    /\ router.installed
    /\ eng.nEffects < MaxEff
    /\ eng' = createEffect(Fresh(eng), <<Rd("matched")>>, MaxDepth)
    /\ last' = CompOp("mountView", "", eng)
    /\ UNCHANGED <<build, compVars, dom, vfor, router, bus, vif, form, nest, view, entries>>

\* the mounted hook of a <router-view> whose route components read
\* router.params() and router.query() while they are mounted (in data(), which
\* mount calls before its first await)
MountReadingView ==
    /\ router.installed
    /\ eng.nEffects < MaxEff
    /\ eng' = createEffect(Fresh(eng), <<Rd("matched"), Snap("params"), Snap("query")>>,
                           MaxDepth)
    /\ last' = CompOp("mountView", "", eng)
    /\ UNCHANGED <<build, compVars, dom, vfor, router, bus, vif, form, nest, view, entries>>

\* router.push(path), a click on a router-link, or the user editing the hash
Push(hash) ==
    /\ router.installed
    /\ router.events < MaxEvents
    /\ hash # router.hash
    /\ router' = push(Nav(eng, [router EXCEPT !.requested = NoPath]), hash).router
    /\ eng' = Fresh(eng)
    /\ last' = CompOp("push", "", eng)
    /\ UNCHANGED <<build, compVars, dom, vfor, bus, vif, form, nest, view, entries>>

\* the hashchange listener runs
HashChange ==
    /\ router.installed
    /\ router.events > 0
    /\ CommitNav(handleRouteChange(Nav(Fresh(eng), [router EXCEPT !.events = @ - 1])))
    /\ last' = CompOp("hashchange", "", eng)
    /\ UNCHANGED <<build, compVars, dom, vfor, bus, vif, form, nest, view, entries>>

\* a hook that kept next (it awaits a check, a timer, a dialog) calls it:
\* the closure of the navigation to newPath proceeds
LateNext(newPath) ==
    /\ newPath \in router.pending
    /\ CommitNav(proceed(Nav(Fresh(eng), [router EXCEPT !.pending = @ \ {newPath}]), newPath))
    /\ last' = CompOp("next", "", eng)
    /\ UNCHANGED <<build, compVars, dom, vfor, bus, vif, form, nest, view, entries>>

\* route tables
Table1 == <<Leaf(<<>>, "Home"), Leaf(<<"user", ":id">>, "User")>>
Table2 == <<Parent(<<"admin">>, "Admin", <<Leaf(<<"users">>, "AdminUsers")>>)>>
Table3 == <<Parent(<<"admin">>, "Admin", <<Leaf(<<"users">>, "AdminUsers")>>),
            Leaf(<<"admin">>, "AdminPage"), Leaf(<<"admin", "users">>, "UsersPage")>>
Table4 == <<Parent(<<"user", ":id">>, "UserLayout",
                   <<Leaf(<<>>, "Overview"), Leaf(<<":tab">>, "Tab")>>),
            Leaf(<<"user", "42">>, "Me")>>
NavTable == <<Leaf(<<>>, "Home"), Leaf(<<"login">>, "Login"),
              Parent(<<"admin">>, "Admin", <<Leaf(<<"users">>, "AdminUsers")>>),
              Leaf(<<"user", ":id">>, "User")>>
\* a layout whose parameter name is used again below it
Table5 == <<Parent(<<"user", ":id">>, "Account",
                   <<Parent(<<":id">>, "Section", <<Leaf(<<"users">>, "SectionUsers")>>),
                     Leaf(<<":tab">>, "Tab")>>)>>
Tables == {Table1, Table2, Table3, Table4, Table5}

\* path segments, and the paths of at most MaxSegs segments
SegNames == {"admin", "users", "user", "42"}
RECURSIVE SegSeqs(_)
SegSeqs(n) ==
    IF n = 0 THEN {<<>>}
    ELSE SegSeqs(n - 1) \cup {Append(q, s) : q \in {x \in SegSeqs(n - 1) : Len(x) = n - 1},
                                             s \in SegNames}
AllPaths == {Path(q, nrm) : q \in SegSeqs(MaxSegs), nrm \in BOOLEAN}

\* the places the application navigates to
NavPaths == {Path(<<>>, TRUE), LoginPath, Path(<<"admin">>, TRUE),
             Path(<<"admin", "users">>, TRUE), Path(<<"user", "42">>, TRUE)}
NavHashes == {Hash(q, {}) : q \in NavPaths} \cup {Hash(Path(<<>>, TRUE), {<<"a", "1">>})}

InitBase ==
    /\ maker = "Component"
    /\ data = Num(0)
    /\ eng = EngInit
    /\ build = "ts"
    /\ last = NoOp
    /\ comp = CompInit

\* a page loaded at any path, with any of the tables, no hook
InitMatch ==
    /\ InitBase
    /\ Idle({"router"})
    /\ \E routes \in Tables : \E variant \in {"router.ts", "part_000"} :
       \E path \in AllPaths :
           router = RouterInit(routes, variant, "none", Hash(path, {}))

NextMatch == Install \/ MountView

SpecMatch == InitMatch /\ [][NextMatch]_vars

\* an application with a beforeEach hook, loaded at any of its places
InitNav ==
    /\ InitBase
    /\ Idle({"router"})
    /\ \E variant \in {"router.ts", "part_000"} : \E hook \in {"none", "auth", "block"} :
       \E hash \in NavHashes :
           router = RouterInit(NavTable, variant, hook, hash)

NextNav ==
    \/ Install
    \/ MountView
    \/ \E hash \in NavHashes : Push(hash)
    \/ HashChange

SpecNav == InitNav /\ [][NextNav]_vars

\* the same application, its router-view mounting components that read the
\* params and the query
NextSeen ==
    \/ Install
    \/ MountReadingView
    \/ \E hash \in NavHashes : Push(hash)
    \/ HashChange

SpecSeen == InitNav /\ [][NextSeen]_vars

\* an application whose beforeEach hook calls next() later, on its own time,
\* and the places its user visits
GuardHashes ==
    {Hash(Path(<<>>, TRUE), {}), Hash(Path(<<"user", "42">>, TRUE), {}),
     Hash(Path(<<"admin", "users">>, TRUE), {<<"a", "1">>})}
InitGuard ==
    /\ InitBase
    /\ Idle({"router"})
    /\ \E variant \in {"router.ts", "part_000"} : \E hash \in GuardHashes :
           router = RouterInit(NavTable, variant, "defer", hash)

NextGuard ==
    \/ Install
    \/ MountView
    \/ \E hash \in GuardHashes : Push(hash)
    \/ HashChange
    \/ \E newPath \in NavPaths : LateNext(newPath)

SpecGuard == InitGuard /\ [][NextGuard]_vars

\* ------------------------------------------------------------------ $emit
\* handlers.forEach(h => { try { h.call(state, payload) } catch (e) { } })
RECURSIVE forEachUntilThrow(_, _, _)
forEachUntilThrow(c, handlers, i) ==
    IF i > Len(handlers) THEN <<>>
    ELSE IF handlers[i] = "throws" THEN <<<<c, i, handlers[i]>>>>
    ELSE <<<<c, i, handlers[i]>>>> \o forEachUntilThrow(c, handlers, i + 1)
RECURSIVE forEach(_, _, _)
forEach(c, handlers, i) ==
    IF i > Len(handlers) THEN <<>>
    ELSE <<<<c, i, handlers[i]>>>> \o forEach(c, handlers, i + 1)

\* let p = comp.el.parentElement; while (p) { p.__melodijs_instance ... }:
\* the components whose element holds c.el, nearest first
RECURSIVE domChain(_, _)
domChain(B, c) ==
    IF ParentOf(c) = NoComp \/ ~B.inDom[c] THEN <<>>
    ELSE <<ParentOf(c)>> \o domChain(B, ParentOf(c))

\* let lp = comp._parent; while (lp) { ...; lp = lp._parent }
RECURSIVE parentChain(_)
parentChain(c) ==
    IF ParentOf(c) = NoComp THEN <<>>
    ELSE <<ParentOf(c)>> \o parentChain(ParentOf(c))

\* the calls made for the components of a chain, in the chain's order
RECURSIVE bubble(_, _)
bubble(B, chain) ==
    IF chain = <<>> THEN <<>>
    ELSE forEach(Head(chain), B.events[Head(chain)], 1) \o bubble(B, Tail(chain))

\* state.$emit('x', payload) of component c
emit(B, c) ==
    forEach(c, B.events[c], 1) \o bubble(B, domChain(B, c)) \o bubble(B, parentChain(c))

Quiet(B) == [B EXCEPT !.emitter = NoComp, !.calls = <<>>]
busFrame == UNCHANGED <<eng, build, last, compVars, dom, vfor, router, vif, form, nest, view, entries>>

\* state.$on('x', handler) of component c
On(c, kind) ==
    /\ Len(bus.events[c]) < MaxHandlers
    /\ bus' = [Quiet(bus) EXCEPT !.events[c] = Append(@, kind)]
    /\ busFrame

\* the function $on returned: arr.splice(idx, 1)
Off(c, i) ==
    /\ i \in DOMAIN bus.events[c]
    /\ bus' = [Quiet(bus) EXCEPT !.events[c] =
                  SubSeq(@, 1, i - 1) \o SubSeq(@, i + 1, Len(@))]
    /\ busFrame

\* unmount() of c empties c.el: the elements of its nested components leave it
ClearHost(c) ==
    /\ \E d \in Tree : ParentOf(d) = c /\ bus.inDom[d]
    /\ bus' = [Quiet(bus) EXCEPT !.inDom = [d \in Tree |-> @[d] /\ ParentOf(d) # c]]
    /\ busFrame

\* state.$emit('x', payload) of c
Emit(c) ==
    /\ bus' = [bus EXCEPT !.emitter = c, !.calls = emit(bus, c)]
    /\ busFrame

InitEmit == InitBase /\ Idle({})

NextEmit ==
    \/ \E c \in Tree : \E kind \in HandlerKinds : On(c, kind)
    \/ \E c \in Tree : \E i \in 1..MaxHandlers : Off(c, i)
    \/ \E c \in Tree : ClearHost(c)
    \/ \E c \in Tree : Emit(c)

SpecEmit == InitEmit /\ [][NextEmit]_vars

\* ------------------------------------------------------------------ v-if
\* _handleVIf(node, scope): a new anchor and closure, the effect deferred
handleVIf(V, b) ==
    [V EXCEPT !.queue = Append(@, b), !.effect[b] = FALSE, !.currentEl[b] = NoEl]

\* this._walk(clone, scope) of the element of b: its v-if children
walkClone(V, b) ==
    IF b = "outer" /\ V.tpl = "nested" THEN handleVIf(V, "inner") ELSE V

\* transitionName as the effect of b reads it from anchor.parentNode
transitionName(V, b) == IF b = "outer" THEN V.name ELSE ""

\* the function of the effect of b
runIf(V, b) ==
    LET shouldShow == Truthy(V.val[b])
        name == transitionName(V, b)
        cur == V.currentEl[b]
        id == V.made + 1
    IN  IF shouldShow
        THEN IF cur # NoEl THEN V
             ELSE LET V1 == walkClone([V EXCEPT !.made = id], b)
                  IN  [V1 EXCEPT !.currentEl[b] = id,
                                 !.els[id] = [Blank EXCEPT
                                     !.block = b, !.attached = TRUE,
                                     !.classes = IF name # "" THEN {"enter-from", "enter-active"}
                                                 ELSE {},
                                     !.raf = IF name # "" THEN {"enter"} ELSE {}]]
        ELSE IF cur = NoEl THEN V
             ELSE IF name # "" /\ V.els[cur].attached
                  THEN [V EXCEPT !.currentEl[b] = NoEl,
                                 !.els[cur].classes = @ \cup {"leave-from", "leave-active"},
                                 !.els[cur].raf = @ \cup {"leave"},
                                 !.els[cur].elapsed = FALSE]
                  ELSE [V EXCEPT !.currentEl[b] = NoEl, !.els[cur].attached = FALSE]

\* effectFn: this._createEffect(...), whose first run is immediate
effectFn(V, b) == runIf([V EXCEPT !.effect[b] = TRUE], b)

\* this._postMountEffects.forEach(fn => fn()); this._postMountEffects = []
\* forEach visits the n entries the array held when it began
RECURSIVE flush(_, _, _)
flush(V, i, n) ==
    IF i > n THEN [V EXCEPT !.queue = <<>>]
    ELSE flush(effectFn(V, V.queue[i]), i + 1, n)

ifFrame == UNCHANGED <<eng, build, last, compVars, dom, vfor, router, bus, form, nest, view, entries>>

\* _render(true): compile, append, run the deferred effects
MountIf ==
    /\ ~vif.mounted
    /\ LET V == handleVIf(vif, "outer")
       IN  vif' = [flush(V, 1, Len(V.queue)) EXCEPT !.mounted = TRUE]
    /\ ifFrame

\* this.show = v or this.more = v: the setter of the field, then its subscribers
SetCond(b, v) ==
    /\ vif.mounted
    /\ vif.made < MaxMade
    /\ LET V == [vif EXCEPT !.val[b] = v]
       IN  vif' = IF SkipsNotify(vif.val[b], v) \/ ~vif.effect[b] THEN V ELSE runIf(V, b)
    /\ ifFrame

\* the callbacks given to requestAnimationFrame run
frameOf(el) ==
    [el EXCEPT !.raf = {},
               !.classes = (@ \ {k \o "-from" : k \in el.raf}) \cup {k \o "-to" : k \in el.raf},
               !.onEnd = @ \cup el.raf]
Frame ==
    /\ \E i \in 1..MaxMade : vif.els[i].raf # {}
    /\ vif' = [vif EXCEPT !.els = [i \in 1..MaxMade |-> frameOf(@[i])]]
    /\ ifFrame

\* a transitionend event reaches element i: its onEnd listeners run
onEnd(el) ==
    [el EXCEPT !.classes = @ \ UNION {{k \o "-active", k \o "-to"} : k \in el.onEnd},
               !.attached = @ /\ "leave" \notin el.onEnd,
               !.onEnd = {}]
TransitionEnd(i) ==
    /\ vif.els[i].attached
    /\ vif.els[i].onEnd # {}
    /\ vif' = [vif EXCEPT !.els[i] = onEnd(@)]
    /\ ifFrame

\* the fallback delay passes without a transitionend for element i: the
\* timers that are due run (_handleVIf sets none)
Elapse(i) ==
    /\ vif.els[i].attached
    /\ vif.els[i].classes # {}
    /\ vif.els[i].raf = {}
    /\ ~vif.els[i].elapsed
    /\ vif' = [vif EXCEPT !.els[i].elapsed = TRUE]
    /\ ifFrame

CondVals == {Num(0), Num(1), Num(2)}

InitIf ==
    /\ InitBase
    /\ Idle({"vif"})
    /\ \E tpl \in {"top", "nested"} : \E name \in {"", "fade"} :
       \E show \in CondVals : \E more \in CondVals :
           vif = [VIfInit EXCEPT !.tpl = tpl, !.name = name,
                                 !.val = [b \in Blocks |-> IF b = "outer" THEN show ELSE more]]

NextIf ==
    \/ MountIf
    \/ \E b \in Blocks : \E v \in CondVals : SetCond(b, v)
    \/ Frame
    \/ \E i \in 1..MaxMade : TransitionEnd(i)
    \/ \E i \in 1..MaxMade : Elapse(i)

SpecIf == InitIf /\ [][NextIf]_vars

\* ------------------------------------------------------------------ v-model
\* inputEl.value = s: a <select> takes the value of one of its options only
setValue(F, s) ==
    [F EXCEPT !.value = IF F.kind = "select" /\ s \notin Options THEN "" ELSE s]

\* the model-to-view effect
modelToView(F) ==
    LET val == F.prop
        F1 == [F EXCEPT !.runs = @ + 1]
    IN  IF F.kind = "checkbox" THEN [F1 EXCEPT !.checked = Truthy(val)]
        ELSE setValue(F1, IF val.k \in {"null", "undef"} THEN "" ELSE String(val))

\* this.state[prop] = val: the setter, then the effect that read the property
setProp(F, val) ==
    IF SkipsNotify(F.prop, val) THEN F ELSE modelToView([F EXCEPT !.prop = val])

\* handler(e) of the listeners of input and change
handlerStale(F) == [F EXCEPT !.calls = @ + 1]
handler(F) ==
    setProp([F EXCEPT !.calls = @ + 1],
            IF F.kind = "checkbox" THEN Bool(F.checked) ELSE JsString(F.value))

\* the events an edit by the user dispatches on the element, and the
\* listeners v-model added for them
EventsOf(kind) == IF kind = "text" THEN <<"input">> ELSE <<"input", "change">>

RECURSIVE dispatch(_, _)
dispatch(F, events) ==
    IF events = <<>> THEN F ELSE dispatch(handler(F), Tail(events))

Began(F, op) == [F EXCEPT !.runs = 0, !.calls = 0, !.op = op]
formFrame == UNCHANGED <<eng, build, last, compVars, dom, vfor, router, bus, vif, nest, view, entries>>

\* _walk on the element: the effect is created and runs, the listeners are added
MountModel ==
    /\ ~form.mounted
    /\ form' = modelToView([Began(form, "mount") EXCEPT !.mounted = TRUE])
    /\ formFrame

\* the user types s, picks the option s, or ticks / unticks the box
Edit(s, b) ==
    /\ form.mounted
    /\ form.kind = "select" => s \in Options
    /\ form.kind = "checkbox" => (b # form.checked /\ s = form.value)
    /\ form.kind # "checkbox" => (s # form.value /\ b = form.checked)
    /\ form' = dispatch([Began(form, "input") EXCEPT !.value = s, !.checked = b],
                        EventsOf(form.kind))
    /\ formFrame

\* a method or a watcher assigns the property
WriteProp(v) ==
    /\ form.mounted
    /\ form' = setProp(Began(form, "write"), v)
    /\ formFrame

Typed == {"", "a", "b", "c", "5"}
PropVals ==
    {JsString(""), JsString("a"), JsString("c"), Num(0), Num(5), NullV, Undefined,
     Bool(TRUE), Bool(FALSE)}

InitModel ==
    /\ InitBase
    /\ Idle({"form"})
    /\ \E kind \in {"text", "checkbox", "select"} : \E v \in PropVals :
           form = [FormInit EXCEPT !.kind = kind, !.prop = v,
                                   !.value = IF kind = "select" THEN "a" ELSE ""]

NextModel ==
    \/ MountModel
    \/ \E s \in Typed : \E b \in BOOLEAN : Edit(s, b)
    \/ \E v \in PropVals : WriteProp(v)

SpecModel == InitModel /\ [][NextModel]_vars

\* ------------------------------------------------------------------ nested mount
nestFrame == UNCHANGED <<eng, build, last, compVars, dom, vfor, router, bus, vif, form, view, entries>>

\* _render(true) of the parent reaches step 5: await this._mountNestedComponents()
BeginNested ==
    /\ nest.i = 0
    /\ nest' = [nest EXCEPT !.i = 1]
    /\ nestFrame

\* one turn of the loop: try { await comp.mount(node, app); mark } catch { console.error }
MountKid ==
    /\ nest.i \in DOMAIN nest.kids
    /\ nest' = IF nest.kids[nest.i] = "ok"
               THEN [nest EXCEPT !.i = @ + 1, !.mounted = @ \cup {nest.i}]
               ELSE [nest EXCEPT !.i = @ + 1, !.errors = @ + 1]
    /\ nestFrame

\* after the loop: hooks.mounted.call(this.state)
RunMounted ==
    /\ nest.i = Len(nest.kids) + 1
    /\ ~nest.hook
    /\ nest' = [nest EXCEPT !.hook = TRUE]
    /\ nestFrame

RECURSIVE KidSeqs(_)
KidSeqs(n) ==
    IF n = 0 THEN {<<>>}
    ELSE KidSeqs(n - 1) \cup {Append(q, o) : q \in {x \in KidSeqs(n - 1) : Len(x) = n - 1},
                                             o \in Outcomes}

InitNest ==
    /\ InitBase
    /\ Idle({"nest"})
    /\ \E kids \in KidSeqs(MaxKids) : nest = [NestInit EXCEPT !.kids = kids]

NextNest == BeginNested \/ MountKid \/ RunMounted

SpecNest == InitNest /\ [][NextNest]_vars

\* ------------------------------------------------------------------ router-view
\* the rest of mount once the template is there: _compile empties the
\* element, _render appends the fragment; in router.ts the element is the
\* container every route component of the view shares
complete(W, i) ==
    [W EXCEPT !.comps = [j \in DOMAIN @ |->
        IF j = i THEN [@[j] EXCEPT !.state = "done", !.appended = TRUE]
        ELSE IF W.variant = "router.ts" THEN [@[j] EXCEPT !.appended = FALSE]
        ELSE @[j]]]

\* comp.unmount(): the unmounted hook, then this.el.innerHTML = ''
unmount(W, i) ==
    [W EXCEPT !.comps = [j \in DOMAIN @ |->
        IF j = i THEN [@[j] EXCEPT !.unmounts = @ + 1, !.appended = FALSE]
        ELSE IF W.variant = "router.ts" THEN [@[j] EXCEPT !.appended = FALSE]
        ELSE @[j]]]

\* container.innerHTML = ''
clear(W) ==
    [W EXCEPT !.comps = [j \in DOMAIN @ |->
        IF W.variant = "router.ts" THEN [@[j] EXCEPT !.appended = FALSE]
        ELSE [@[j] EXCEPT !.inContainer = FALSE]]]

\* mountNew(wrapper), or new Component(route.component) and comp.mount(container, app)
mountNew(W, route) ==
    LET id == Len(W.comps) + 1
        W1 == [W EXCEPT !.comps = Append(@, NewComp(route)), !.current = id]
    IN  IF route.tpl = "inline" THEN complete(W1, id) ELSE W1

\* the branch without transition
replace(W, route) ==
    LET W1 == clear(W)
        W2 == IF W.current # 0 THEN [unmount(W1, W.current) EXCEPT !.current = 0] ELSE W1
    IN  IF route = NoRoute THEN W2 ELSE mountNew(W2, route)

\* the same branch had it left the old wrapper alone: no leave is scheduled
enterOnly(W, route) == mountNew(W, route)

\* the branch of part_000 for a route with a transition name
transition(W, route) ==
    LET W1 == mountNew(W, route)
    IN  IF W.current = 0 THEN W1
        ELSE [W1 EXCEPT !.comps[W.current].timer = TRUE, !.comps[W.current].listener = TRUE]

\* the function of the effect of the view
runView(W, route) ==
    IF W.variant = "part_000" /\ route.fade THEN transition(W, route) ELSE replace(W, route)

\* onTransitionEnd of the leave of component i
onTransitionEnd(W, i) ==
    LET W1 == IF W.comps[i].inContainer
              THEN [W EXCEPT !.comps[i].inContainer = FALSE, !.comps[i].removals = @ + 1]
              ELSE W
    IN  unmount(W1, i)

viewFrame == UNCHANGED <<eng, build, last, compVars, dom, vfor, router, bus, vif, form, nest, entries>>

\* router.matched() changed, or the view was mounted: the effect runs
RunView(route) ==
    /\ Len(view.comps) < MaxRuns
    /\ view' = runView(view, route)
    /\ viewFrame

\* fetch(tpl.url) of component i resolves
ViewFetched(i) ==
    /\ i \in DOMAIN view.comps
    /\ view.comps[i].state = "fetching"
    /\ view' = complete(view, i)
    /\ viewFrame

\* setTimeout(onTransitionEnd, 500) of the leave of component i fires
LeaveTimer(i) ==
    /\ i \in DOMAIN view.comps
    /\ view.comps[i].timer
    /\ view' = onTransitionEnd([view EXCEPT !.comps[i].timer = FALSE], i)
    /\ viewFrame

\* transitionend reaches the wrapper of component i, still in the document:
\* the listener, added with { once: true }, runs
LeaveEnd(i) ==
    /\ i \in DOMAIN view.comps
    /\ view.comps[i].listener
    /\ view.comps[i].inContainer
    /\ view' = onTransitionEnd([view EXCEPT !.comps[i].listener = FALSE], i)
    /\ viewFrame

RouteEntries ==
    {NoRoute} \cup {RouteEntry(n, tpl, fade) :
                       n \in {"Home", "User"}, tpl \in {"inline", "url"}, fade \in BOOLEAN}

InitView ==
    /\ InitBase
    /\ Idle({"view"})
    /\ \E variant \in {"router.ts", "part_000"} : view = [ViewInit EXCEPT !.variant = variant]

NextView ==
    \/ \E route \in RouteEntries : RunView(route)
    \/ \E i \in 1..MaxRuns : ViewFetched(i)
    \/ \E i \in 1..MaxRuns : LeaveTimer(i)
    \/ \E i \in 1..MaxRuns : LeaveEnd(i)

SpecView == InitView /\ [][NextView]_vars

\* the templates of a component with form controls, event bindings and a
\* nested component: up to MaxNodes nodes
TplNodes == {SigE(FieldSig), VModelEl("input", "text"), VModelEl("input", "checkbox"),
             VModelEl("select", ""), VModelEl("div", ""), OnEl("click"), ChildEl}
LifeTemplates == {<<n>> : n \in TplNodes} \cup {<<n, m>> : n \in TplNodes, m \in TplNodes}

\* one application whose component c1 is mounted (from a string template or
\* from a fetched one) and unmounted at any moment; c2 is nested in c1
InitLife ==
    /\ maker = "Component"
    /\ data = Num(0)
    /\ eng = EngInit
    /\ build = "ts"
    /\ last = NoOp
    /\ comp = CompInit
    /\ RestInit

NextLife ==
    \/ \E tpl \in LifeTemplates : Mount("c1", tpl)
    \/ \E tpl \in LifeTemplates : MountUrl("c1", tpl)
    \/ \E c \in Comps : Fetched(c)
    \/ \E c \in Comps : Mounted(c)
    \/ \E c \in Comps : Nested(c)
    \/ \E c \in Comps : Unmount(c)

SpecLife == InitLife /\ [][NextLife]_vars

Next ==
    \/ \E fn \in Bodies : DoCreateEffect(fn)
    \/ \E f \in MemoFns : DoCreateMemo(f)
    \/ \E s \in Plain : \E next \in Inputs(s) : DoWrite(s, next)

Spec == Init /\ [][Next]_vars

\* the same program run on the melodijs.js build of createSignal
SpecJs == InitJs /\ [][Next]_vars

\* effects that write signals they or one another read: one that flips the
\* signal it reads, two that answer each other through a and b with fixed
\* values, and one that stores a new object in the signal it reads
LoopBodies ==
    { <<Flip("a")>>,
      <<Rd("a"), Wr("b", Num(1))>>,
      <<Rd("b"), Wr("a", Num(1))>>,
      <<Rd("c"), Wr("c", Obj(1))>>,
      <<Rd("c")>> }

NextLoop ==
    \/ \E fn \in LoopBodies : DoCreateEffect(fn)
    \/ \E s \in Plain : \E next \in Inputs(s) : DoWrite(s, next)

SpecLoop == Init /\ [][NextLoop]_vars

\* effects whose function throws when the signal it names is truthy, before
\* or after reading another signal, beside effects that only read
ThrowBodies ==
    { <<Throw("a")>>,
      <<Rd("b"), Throw("a")>>,
      <<Throw("b"), Rd("a")>>,
      <<Rd("a")>>,
      <<Create("b"), Rd("a")>> }

NextThrow ==
    \/ \E fn \in ThrowBodies : DoCreateEffect(fn)
    \/ \E s \in Plain : \E next \in Inputs(s) : DoWrite(s, next)

SpecThrow == Init /\ [][NextThrow]_vars

\* ------------------------------------------------------------------ properties
\* the effects that existed when the last operation started
Before == 1..last.nEffects

\* the signals whose write can reach effect e: those its function names, and
\* those named by the effects that write one of them (memos, writing effects)
Writes(b) == {b[i].x : i \in {j \in 1..Len(b) : b[j].op \in {"write", "memo"}}}
RECURSIVE Close(_, _)
Close(S, n) ==
    IF n = 0 THEN S
    ELSE Close(S \cup UNION {BodySigs(eng.body[w]) :
                                w \in {x \in Eff : Writes(eng.body[x]) \cap S # {}}}, n - 1)
Reach(e) == Close(BodySigs(eng.body[e]), MaxEff)

\* the last operation was a write of a primitive value that differs from the old one
ChangedPrimitive ==
    last.op = "write" /\ IsPrimitive(last.next) /\ ~StrictEq(last.old, last.next)

\* the last operation was a write of the primitive value the signal already held
SamePrimitive ==
    last.op = "write" /\ IsPrimitive(last.next) /\ StrictEq(last.old, last.next)

\* C1: a write that changes a signal's primitive value runs every (reading)
\* effect whose last run read the signal exactly once, also when the effect
\* reads a memo derived from the signal as well, and runs no effect that the
\* signal cannot reach.
C1_SignalPropagation ==
    (ChangedPrimitive /\ ~eng.thrown) =>
        \A e \in Before :
            IsReader(eng.body[e]) =>
                /\ (e \in last.readers => eng.runs[e] = 1)
                /\ (last.s \notin Reach(e) => eng.runs[e] = 0)

\* C2: writing the primitive value a signal already holds runs no effect and
\* leaves the signal's value and its subscriber set as they were.
C2_EqualitySkip ==
    SamePrimitive =>
        /\ \A e \in Eff : eng.runs[e] = 0
        /\ eng.v[last.s] = last.old
        /\ eng.subscribers[last.s] = last.subscribers

\* a same-value write to a signal that has a subscriber
C2_Witness == SamePrimitive /\ last.subscribers # <<>>

\* C3: writing a non-primitive value runs every subscriber the signal had,
\* also when the value is the object the signal already holds.
C3_NonPrimitiveAlwaysNotify ==
    (last.op = "write" /\ ~IsPrimitive(last.next)) =>
        \A i \in 1..Len(last.subscribers) : eng.runs[last.subscribers[i]] >= 1

\* C4: a (reading) effect is subscribed to exactly the signals it read during
\* its most recent run.
C4_EffectRetracking ==
    \A e \in 1..eng.nEffects :
        IsReader(eng.body[e]) => Subscribed(eng, e) = eng.reads[e]

\* C5: every signal an effect read during its most recent run, also after an
\* inner effect was created or re-run inside it, has the effect as subscriber.
C5_ContextRestored ==
    \A e \in 1..eng.nEffects : eng.reads[e] \subseteq Subscribed(eng, e)

\* C6: once an operation has returned, the memo holds the value of its
\* function on the current signal values.
C6_MemoCurrent ==
    (eng.memoEffect # Null /\ ~eng.thrown) =>
        eng.v[MemoSig] = Value(eng, eng.body[eng.memoEffect][1].f)

\* a write that made the memo's effect recompute a value other than undefined
C6_Witness ==
    /\ eng.memoEffect # Null
    /\ last.op = "write"
    /\ eng.runs[eng.memoEffect] >= 1
    /\ eng.v[MemoSig] # Undefined

\* the interpolation effects of the components that have not been unmounted
Shown == UNION {comp[c].created : c \in {d \in Comps : ~comp[d].unmounted}}

\* an operation of a handler that writes field x or the store
HandlerWrite == last.op \in {"setField", "setStore", "mutate", "nested"}

\* every subscriber the written signal had ran during the last operation
SubscribersRan ==
    \A i \in 1..Len(last.subscribers) : eng.runs[last.subscribers[i]] >= 1

\* C7: after every assignment to a state field or to the store, each
\* interpolation text node of every component shows the current value of
\* its expression.
C7_InterpolationCurrent ==
    \A e \in Shown : eng.text[e] = nodeValue(Value(eng, eng.body[e][1].f))

\* a store write made both components' text nodes change to "1"
C7_Witness ==
    /\ last.op = "setStore"
    /\ \A c \in Comps :
          /\ comp[c].phase = "mounted"
          /\ ~comp[c].unmounted
          /\ \E e \in comp[c].created : eng.runs[e] = 1 /\ eng.text[e] = "1"

\* C8: an in-place mutation of the array held by field x runs every
\* subscriber of the field, also when the array was assigned to the field
\* after construction.
C8_ArrayMutationNotifies == last.op = "mutate" => SubscribersRan

\* C9: a write to a field nested at any depth inside the value of x runs
\* every subscriber of the field.
C9_NestedWriteNotifies == last.op = "nested" => SubscribersRan

\* C10: a write made after a component's unmount() runs none of the effects
\* that component created.
C10_UnmountedInert ==
    HandlerWrite =>
        \A c \in Comps : comp[c].unmounted => \A e \in comp[c].created : eng.runs[e] = 0

\* unmount() was the last thing component c did
JustUnmounted(c) == dom[c].log # <<>> /\ dom[c].log[Len(dom[c].log)] = "unmounted"

\* C11: once unmount() has returned, none of the native listeners the
\* component added while compiling (event bindings, `input` and `change` of
\* two-way bindings) is left on its node.
C11_ListenersRemoved ==
    \A c \in Comps : JustUnmounted(c) => dom[c].attached = {}

\* C12: a mount that completes after unmount() changes nothing: after the
\* unmounted hook the component compiles no template (installs no effect),
\* appends no fragment, mounts no nested component and calls no mounted hook.
C12_LateCompletionInert ==
    \A c \in Comps : \A i \in 1..Len(dom[c].log) :
        dom[c].log[i] = "unmounted" => i = Len(dom[c].log)

\* the item elements among the parent's children, by key, in document order
RECURSIVE ItemOrder(_)
ItemOrder(ch) ==
    IF ch = <<>> THEN <<>>
    ELSE (IF Head(ch).kind = "el" THEN <<Head(ch).key>> ELSE <<>>) \o ItemOrder(Tail(ch))

\* C13: a run of the keyed reconciler on an unchanged key sequence calls
\* neither removeChild nor insertBefore.
C13_UnchangedNoMutation ==
    vfor.same => vfor.inserts = 0 /\ vfor.removes = 0

\* C14: when the keys come back in another order, every tracked element is
\* the one tracked before (none created, none removed) and the elements
\* stand in the order of the new keys.
C14_PermutationReuses ==
    vfor.permuted =>
        /\ vfor.created = 0
        /\ vfor.removes = 0
        /\ vfor.itemMap = vfor.prevMap
        /\ ItemOrder(vfor.children) = vfor.keys
        /\ \A k \in Range(vfor.keys) : El(k, vfor.itemMap[k]) \in Range(vfor.children)

\* [1,2,3] re-rendered as [3,1,2] behind a static sibling
C14_Witness ==
    /\ vfor.permuted
    /\ vfor.keys = <<3, 1, 2>>
    /\ Static \in Range(vfor.children)
    /\ vfor.inserts > 0

\* ------------------------------------------------------------------ router
\* the matched chain and the params the router holds
Chain == eng.v["matched"].n
Params == eng.v["params"].n
\* the path of the location the page was loaded at
Loaded == router.hash.path

\* a pattern and a path have as many segments, and every literal segment of
\* the pattern is the path's
Fits(pattern, segs) ==
    /\ Len(pattern) = Len(segs)
    /\ \A i \in DOMAIN pattern : IsParam(pattern[i]) \/ pattern[i] = segs[i]
Binding(pattern, segs) ==
    {<<ParamName(pattern[i]), segs[i]>> : i \in {j \in DOMAIN pattern : IsParam(pattern[j])}}

\* C15: with the table [{'/'}, {'/user/:id'}], once the router handled a
\* location spelled "/a/b", the matched chain holds the childless route whose pattern has as
\* many segments as the path and the same literal segments, the params hold
\* what its parameter segments bind, and the chain is empty when no route fits;
\* /user/42 gives [User] and {id: '42'}
C15_ChildlessExact ==
    (router.installed /\ router.routes = Table1 /\ Loaded.normal) =>
        /\ \A i \in DOMAIN Table1 :
              Fits(Table1[i].path, Loaded.segs) =>
                  /\ Chain = <<Table1[i].name>>
                  /\ Params = Binding(Table1[i].path, Loaded.segs)
        /\ (\A i \in DOMAIN Table1 : ~Fits(Table1[i].path, Loaded.segs)) => Chain = <<>>

\* the names of the records of a table, and of the children of a record
TopNames(routes) == {routes[i].name : i \in DOMAIN routes}
\* the records of a table, at every depth
RECURSIVE Records(_)
Records(routes) ==
    {routes[i] : i \in DOMAIN routes} \cup UNION {Records(routes[i].children) : i \in DOMAIN routes}
ChildNames(routes, nm) ==
    UNION {TopNames(r.children) : r \in {x \in Records(routes) : x.name = nm}}
ParentNames(routes) == {r.name : r \in {x \in Records(routes) : x.hasChildren}}

C17_PartialChain ==
    router.installed =>
        /\ Chain # <<>> =>
              /\ Chain[1] \in TopNames(router.routes)
              /\ \A i \in 2..Len(Chain) : Chain[i] \in ChildNames(router.routes, Chain[i - 1])
        /\ (router.routes = Table2 /\ Loaded = Path(<<"admin", "users">>, TRUE)) =>
               Chain = <<"Admin", "AdminUsers">>
C17_Witness ==
    /\ router.installed
    /\ router.routes = Table2
    /\ Loaded = Path(<<"admin", "users">>, TRUE)
    /\ Chain = <<"Admin", "AdminUsers">>

\* the current route the router holds
Route == eng.v["route"].n
\* the effects of the router-views
Views == 1..eng.nEffects

\* C18: with a hook that answers next('/login') for the protected paths and
\* next() for the others, no protected path is ever committed, and once the
\* redirection was handled the current route, the matched chain and the
\* params are those of /login
C18_RedirectCommitted ==
    (router.installed /\ router.hook = "auth") =>
        /\ router.lastCommit \notin Protected
        /\ Chain \notin {<<"Admin">>, <<"Admin", "AdminUsers">>}
        /\ (router.requested # NoPath /\ router.events = 0) =>
              /\ router.lastCommit = LoginPath
              /\ Route = LoginPath
              /\ Chain = <<"Login">>
              /\ Params = {}
\* /admin/users was asked for while /user/42 was shown, and /login is shown
C18_Witness ==
    /\ router.hook = "auth"
    /\ last.op = "hashchange"
    /\ router.requested = Path(<<"admin", "users">>, TRUE)
    /\ router.events = 0
    /\ router.prev["route"] = Str(Path(<<"user", "42">>, TRUE))
    /\ Route = LoginPath
    /\ Chain = <<"Login">>

\* the listener of hashchange, or the initial call, just ran
Handled == last.op \in {"hashchange", "install"}

\* C19: when the hook is registered and returns without calling next, the
\* four signals keep the values they had and no router-view effect runs
C19_BlockedNavigation ==
    (Handled /\ router.hook # "none" /\ Decision(router.hook, router.hash.path) = "none") =>
        /\ \A s \in RouterSigs : eng.v[s] = router.prev[s]
        /\ \A e \in Views : eng.runs[e] = 0
\* /admin was asked for while /user/42 was shown by a router-view
C19_Witness ==
    /\ last.op = "hashchange"
    /\ router.hook = "block"
    /\ router.hash.path = Path(<<"admin">>, TRUE)
    /\ Route = Path(<<"user", "42">>, TRUE)
    /\ Views # {}
    /\ \A e \in Views : eng.runs[e] = 0

\* ------------------------------------------------------------------ $emit
\* the positions in the calls of the last $emit where handler i of c was called
CallsOf(c, i) == {k \in DOMAIN bus.calls : bus.calls[k][1] = c /\ bus.calls[k][2] = i}
Ancestors(c) == Range(parentChain(c))

\* C20: a $emit calls the emitter's own handlers first, in their order, then
\* every handler of every ancestor, whatever the components in between
\* registered and whatever the handlers called before did
C20_EmitBubbles ==
    bus.emitter # NoComp =>
        LET local == bus.events[bus.emitter]
        IN  /\ Len(bus.calls) >= Len(local)
            /\ \A i \in DOMAIN local : bus.calls[i] = <<bus.emitter, i, local[i]>>
            /\ \A a \in Ancestors(bus.emitter) : \A i \in DOMAIN bus.events[a] :
                  \E k \in CallsOf(a, i) : k > Len(local)
\* the child emits, its first handler throws, the parent has no handler, and
\* both handlers of the grandparent are called though the first throws
C20_Witness ==
    /\ bus.emitter = "child"
    /\ bus.events["child"] = <<"throws", "ok">>
    /\ bus.events["parent"] = <<>>
    /\ bus.events["grand"] = <<"throws", "ok">>
    /\ CallsOf("child", 2) # {}
    /\ CallsOf("grand", 2) # {}

\* ------------------------------------------------------------------ v-if
\* the blocks of the mounted template
BlocksOf(tpl) == IF tpl = "nested" THEN Blocks ELSE {"outer"}
\* the elements of block b that are in the document: an element of the inner
\* block is a child of the current element of the outer block
Attached(b) == {i \in 1..vif.made : vif.els[i].block = b /\ vif.els[i].attached}
InDocument(b) ==
    IF b = "outer" \/ vif.currentEl["outer"] \in Attached("outer")
    THEN Attached(b) ELSE {}
\* the condition of b holds, and so do those of the v-if elements around it
Wanted(b) == Truthy(vif.val[b]) /\ (b = "inner" => Truthy(vif.val["outer"]))

\* C21: without a transition, once the component is mounted and whatever was
\* written to its state, a v-if element has one rendered copy in the
\* document, the one its effect inserted before the anchor, when its
\* condition is truthy, and none when it is not
C21_RenderedIffTruthy ==
    (vif.mounted /\ vif.name = "") =>
        \A b \in BlocksOf(vif.tpl) :
            /\ Cardinality(InDocument(b)) <= 1
            /\ Wanted(b) => InDocument(b) = {vif.currentEl[b]}
            /\ ~Truthy(vif.val[b]) => InDocument(b) = {}

\* C28: once the fallback delay has passed since a transition of a v-if
\* element began, its transition classes are cleared, and the element is out
\* of the document if it was leaving, also when no transitionend arrived
C28_FallbackFinalises ==
    \A i \in 1..vif.made :
        vif.els[i].elapsed =>
            /\ vif.els[i].classes = {}
            /\ (\A b \in Blocks : vif.currentEl[b] # i) => ~vif.els[i].attached

\* ------------------------------------------------------------------ v-model
\* what the element holds, read as the handler reads it
Held == IF form.kind = "checkbox" THEN Bool(form.checked) ELSE JsString(form.value)
\* the string a text control or a <select> shows for a value of the property
Shows(val) ==
    LET s == IF val.k \in {"null", "undef"} THEN "" ELSE String(val)
    IN  IF form.kind = "select" /\ s \notin Options THEN "" ELSE s

C23_FailedMountFallback ==
    (nest.i = Len(nest.kids) + 1 /\ nest.hook) =>
        \A k \in DOMAIN nest.kids :
            IF nest.kids[k] = "ok" THEN k \in nest.mounted ELSE k \in nest.placeholder

\* ------------------------------------------------------------------ matching order
\* a pattern fits the first segments of a path
PrefixFits(pattern, segs) ==
    /\ Len(pattern) <= Len(segs)
    /\ \A i \in DOMAIN pattern : IsParam(pattern[i]) \/ pattern[i] = segs[i]

\* a route can complete a match for the path: a childless route fits it
\* exactly, a route with children fits its beginning and one of its children
\* can complete the match
RECURSIVE Completes(_, _, _)
Completes(route, parent, segs) ==
    LET full == parent \o route.path
    IN  IF route.hasChildren
        THEN /\ PrefixFits(full, segs)
             /\ \E i \in DOMAIN route.children : Completes(route.children[i], full, segs)
        ELSE Fits(full, segs)

\* the chain through the first declared route that can complete a match, at
\* every level
RECURSIVE FirstChain(_, _, _)
FirstChain(routes, parent, segs) ==
    LET can == {i \in DOMAIN routes : Completes(routes[i], parent, segs)}
    IN  IF can = {} THEN <<>>
        ELSE LET r == routes[CHOOSE i \in can : \A j \in can : i <= j]
             IN  <<r.name>> \o FirstChain(r.children, parent \o r.path, segs)

\* C24: the matched chain goes, at every level, through the first declared
\* route among those that can complete a match for the path
C24_FirstDeclaredWins ==
    (router.installed /\ Loaded.normal) =>
        Chain = FirstChain(router.routes, <<>>, Loaded.segs)

\* what the routes of a chain bind, root to leaf, each by the parameter
\* segments of its own path, a deeper binding replacing a shallower one of
\* the same name
RECURSIVE ChainBindings(_, _, _, _)
ChainBindings(routes, chain, at, segs) ==
    IF chain = <<>> THEN {}
    ELSE LET r == CHOOSE x \in {routes[i] : i \in DOMAIN routes} : x.name = Head(chain)
             own == {<<ParamName(r.path[j]), segs[at + j]>> :
                        j \in {k \in DOMAIN r.path : IsParam(r.path[k])}}
         IN  Merge(own, ChainBindings(r.children, Tail(chain), at + Len(r.path), segs))

\* C25: the params are the bindings of the routes of the matched chain, a
\* deeper one replacing a shallower one of the same name, and nothing else;
\* they are empty when the chain is
C25_ParamsOfChain ==
    router.installed => Params = ChainBindings(router.routes, Chain, 0, Loaded.segs)
\* Section bound id again, was popped and its id deleted, yet the id of
\* Account is there with the tab of the sibling that matched
C25_Witness ==
    /\ router.installed
    /\ router.routes = Table5
    /\ Loaded.segs = <<"user", "42", "admin">>
    /\ Chain = <<"Account", "Tab">>
    /\ Params = {<<"id", "42">>, <<"tab", "admin">>}

\* ------------------------------------------------------------------ router-view
\* the components whose content the container shows
Content == {i \in DOMAIN view.comps : view.comps[i].inContainer /\ view.comps[i].appended}
\* no route shown so far declared a transition name
NoFade == \A i \in DOMAIN view.comps : ~view.comps[i].fade

\* C26: without transition names, the container shows nothing but the
\* component the last run of the effect mounted, shows it once its template
\* is rendered, shows nothing when the last run found no entry, and every
\* component of an earlier run was unmounted once, the current one never
C26_ViewShowsCurrent ==
    NoFade =>
        /\ Content \subseteq {view.current}
        /\ (view.current # 0 /\ view.comps[view.current].state = "done") =>
               Content = {view.current}
        /\ \A i \in DOMAIN view.comps :
               view.comps[i].unmounts = IF i = view.current THEN 0 ELSE 1

\* C27: whichever of the transitionend listener and the fallback timeout of
\* a leave runs second, the wrapper is removed once and the component that
\* left is unmounted once
C27_LeaveOnce ==
    \A i \in DOMAIN view.comps :
        /\ view.comps[i].removals <= 1
        /\ view.comps[i].unmounts <= 1

\* ------------------------------------------------------------------ keyed v-for, any change
\* C29: after a run of the keyed reconciler on a list without repeated keys
\* the keys tracked in itemMap are the keys of the list, every item element
\* in the parent is the one tracked for a key of the list (an element of a
\* vanished key is gone), and the elements stand in the order of the keys.
C29_KeyedRecompute ==
    /\ {k \in DOMAIN vfor.itemMap : vfor.itemMap[k] # 0} = Range(vfor.keys)
    /\ \A x \in Range(vfor.children) :
           x.kind = "el" => x.key \in Range(vfor.keys) /\ x.made = vfor.itemMap[x.key]
    /\ ItemOrder(vfor.children) = vfor.keys

\* a run that removed the element of a vanished key, created one for a new
\* key in front of a kept one, behind a static sibling
C29_Witness ==
    /\ vfor.removes > 0
    /\ vfor.created > 0
    /\ vfor.inserts > vfor.created
    /\ Len(vfor.keys) >= 2
    /\ \E k \in Range(vfor.keys) : vfor.prevMap[k] # 0 /\ vfor.keys[1] # k
    /\ Static \in Range(vfor.children)

\* ------------------------------------------------------------------ keyed v-for, null keys
\* the items of the last run whose key expression gave null or undefined
NullAt == {i \in DOMAIN vfor.items : vfor.items[i] \in {NullV, Undefined}}
\* the keys of its other items, in order
RECURSIVE ProperKeys(_)
ProperKeys(items) ==
    IF items = <<>> THEN <<>>
    ELSE (IF Head(items).k = "num" THEN <<Head(items).n>> ELSE <<>>) \o ProperKeys(Tail(items))

\* C30: in keyed mode every item whose key is null or undefined is warned
\* about and gets neither a map entry nor an element, and the items with a
\* proper key are rendered, in order.
C30_NullKeySkipped ==
    /\ vfor.warned = Cardinality(NullAt)
    /\ {k \in DOMAIN vfor.itemMap : vfor.itemMap[k] # 0} = Range(ProperKeys(vfor.items))
    /\ ItemOrder(vfor.children) = ProperKeys(vfor.items)

\* ------------------------------------------------------------------ cascades
\* C31: a write (and the first run of a new effect) ends with every effect
\* run to its end: the cascade never exhausts the call stack, also when an
\* effect writes a signal it reads.
C31_CascadeQuiescent == ~eng.thrown

\* ------------------------------------------------------------------ exceptions
\* effect e ran during the last operation and its function threw: it names a
\* truthy signal in a throw statement (no function here writes a signal)
Threw(e) ==
    /\ eng.runs[e] > 0
    /\ \E i \in 1..Len(eng.body[e]) :
           eng.body[e][i].op = "throw" /\ Truthy(eng.v[eng.body[e][i].x])

\* C32: when the function of an effect throws, the operation that ran the
\* effect (a write, or the creation) ends with that exception, no subscriber
\* behind the effect is called by the write, and _currentEffect is null.
C32_ExceptionPropagates ==
    \A e \in 1..eng.nEffects :
        Threw(e) =>
            /\ eng.thrown
            /\ eng.currentEffect = Null
            /\ last.op = "write" =>
                   \A i, j \in 1..Len(last.subscribers) :
                       (last.subscribers[i] = e /\ i < j) =>
                           eng.runs[last.subscribers[j]] = 0

\* a write made a subscriber throw while another subscriber stood behind it
C32_Witness ==
    /\ last.op = "write"
    /\ \E i, j \in 1..Len(last.subscribers) :
           i < j /\ Threw(last.subscribers[i])

\* ------------------------------------------------------------------ mount order
\* the steps of an initial mount, with and without a nested component
MountSteps(nested) ==
    <<"compile", "beforeMount", "append", "effects">>
        \o (IF nested THEN <<"nested">> ELSE <<>>) \o <<"mounted">>
StartsWith(q, p) == Len(p) <= Len(q) /\ SubSeq(q, 1, Len(p)) = p
\* what a component logged, its unmounted hook left out
MountLog(c) == SelectSeq(dom[c].log, LAMBDA x : x # "unmounted")

\* the steps of the mount of every component follow the order compile,
\* beforeMount, append, deferred effects, nested components, mounted
MountInOrder ==
    \A c \in Comps : \E nested \in BOOLEAN : StartsWith(MountSteps(nested), MountLog(c))

\* C33: the steps of a mount happen in the order compile, beforeMount,
\* append, deferred effects, nested components, mounted, each hook once, and
\* the unmounted hook of a component never runs before the mounted hook of
\* its mount.
C33_HookOrder ==
    /\ MountInOrder
    /\ \A c \in Comps : \A i, j \in 1..Len(dom[c].log) :
           (dom[c].log[i] = "unmounted" /\ dom[c].log[j] = "mounted") => j < i

\* ------------------------------------------------------------------ navigation, as seen
\* C34: whatever an effect run by a navigation read from the params and the
\* query signals is what the navigation committed: no subscriber of matched
\* runs while the two signals hold the values of the navigation before.
C34_SeesOwnNavigation ==
    \A i \in DOMAIN eng.seen : eng.seen[i].val = eng.v[eng.seen[i].x]

\* ------------------------------------------------------------------ late continuations
\* nothing is left to happen: no hashchange waits and the hook holds no next
Settled == router.installed /\ router.events = 0 /\ router.pending = {}
\* the four signals hold what the navigation to the current hash commits
OfCurrentHash ==
    LET m == matchRoute(router.variant, router.routes, router.hash.path)
    IN  /\ eng.v["route"] = Str(router.hash.path)
        /\ eng.v["matched"] = Boxed(m.matched)
        /\ eng.v["params"] = Boxed(m.params)
        /\ eng.v["query"] = Boxed(router.hash.query)

\* C35: once every hashchange was handled and every kept next() was called,
\* in whatever order, route, matched chain, params and query are those of
\* the navigation to the current hash.
C35_StaleProceedIgnored == Settled => OfCurrentHash

\* ------------------------------------------------------------------ $emit, once
\* C36: one $emit calls no handler of an ancestor more than once, also when
\* the ancestor is found on the way up the document and on the way up the
\* logical parents.
C36_AncestorOnce ==
    bus.emitter # NoComp =>
        \A a \in Ancestors(bus.emitter) : \A i \in DOMAIN bus.events[a] :
            Cardinality(CallsOf(a, i)) <= 1

\* ------------------------------------------------------------------ deferred effects
\* the anchor of block b exists: the one of the inner block is made when the
\* element of the outer block is rendered
HasAnchor(b) == b = "outer" \/ vif.currentEl["outer"] # NoEl

\* C37: in a mounted component every v-if whose anchor exists has its effect
\* installed and run, also the v-if inside the element of another v-if.
C37_DeferredEffectRuns ==
    vif.mounted =>
        \A b \in BlocksOf(vif.tpl) : HasAnchor(b) => vif.effect[b]

\* ------------------------------------------------------------------ keyed v-for, entries
\* C38: after a run of the keyed reconciler the entry of every key of the
\* list, reused or new, holds the item of the current list and the index the
\* key has in it.
C38_EntryCurrent ==
    \A k \in Range(vfor.keys) :
        entries.entry[k] = [index |-> IndexIn(vfor.items, k), item |-> entries.gen]

\* ------------------------------------------------------------------ keyed and unkeyed
\* the children of a parent, the identity of the item elements left out
Shape(ch) == [i \in DOMAIN ch |-> [kind |-> ch[i].kind, key |-> ch[i].key]]

\* C39: after every run on a list of distinct keys the parent of a keyed
\* v-for has the children the same v-for without :key would have: the item
\* elements in list order before the anchor, the static children in place.
C39_KeyedAsUnkeyed ==
    Shape(vfor.children) = Shape(unkeyed(vfor.children, vfor.keys))

\* ------------------------------------------------------------------ router-view, transitions settled
\* the wrappers the container of the view holds
Wrappers == {i \in DOMAIN view.comps : view.comps[i].inContainer}
\* no fallback timeout of a leave is pending, and no transitionend listener
\* sits on a wrapper still in the document
Calm ==
    \A i \in DOMAIN view.comps :
        ~view.comps[i].timer /\ ~(view.comps[i].listener /\ view.comps[i].inContainer)

\* C40: in the build with wrappers, whatever routes the effect ran for and
\* however its runs interleave with the ends of the leaves, once every
\* pending leave callback has fired the container holds the wrapper of the
\* route of the last run and no other (none when that run found no entry),
\* and every component mounted by an earlier run has been unmounted
C40_OneWrapperAtRest ==
    (view.variant = "part_000" /\ Calm) =>
        /\ Wrappers = {view.current} \ {0}
        /\ \A i \in DOMAIN view.comps : i # view.current => view.comps[i].unmounts >= 1

\* three routes with transition names shown in a row, the two earlier
\* wrappers taken out by the end of their leaves, everything settled
C40_Witness ==
    /\ view.variant = "part_000"
    /\ Calm
    /\ Len(view.comps) = 3
    /\ view.current = 3
    /\ \A i \in 1..3 : view.comps[i].fade
    /\ view.comps[1].removals = 1
    /\ view.comps[2].removals = 1
    /\ Wrappers = {3}

====
